---- MODULE Spec2Model ----
(***************************************************************************)
(* UDPx: the reliable byte stream over UDP of src/udp/src/transport.rs.   *)
(*                                                                         *)
(* Every endpoint is a thread that runs from one blocking socket receive  *)
(* to the next: an action is the code a thread executes between two       *)
(* receives (the sends in between included).  The network is the set of   *)
(* datagrams sent so far; a receive takes any datagram addressed to the   *)
(* socket (reordering), may take the same one again (duplication) or may  *)
(* time out although datagrams are there (loss, delay).  Under the other   *)
(* channel a datagram is taken out of the network when it is received and *)
(* is lost only by the action Lose, at most MaxLoss times; at most MaxDup  *)
(* times the channel keeps a copy of the datagram it delivers.            *)
(***************************************************************************)
EXTENDS Integers, Sequences, FiniteSets, TLC

VARIABLES
    env,        \* platform, channel, application: what the code does not choose
    net,        \* datagrams in flight
    waits,      \* the threads blocked in a receive, the longest wait first
    st,         \* st[s]: the UdpxStream on socket s
    call,       \* call[s]: the operation running on stream s and its locals
    lst,        \* the UdpxListener and its thread
    ghost,      \* history the claims are stated over
    codec       \* a Packet or a PacketStream of packet.rs and what was made of it

vars == <<env, net, waits, st, call, lst, ghost, codec>>

----------------------------------------------------------------------------
(* Bounds of the model.                                                    *)

\* Retry budgets of the code (1 << 14 attempts, 30 FIN tries), scaled down.
Budget == 2
\* PACKET_DATA_CAPACITY (1014 bytes), scaled down.
PayloadCap == 2
\* Bytes one endpoint passes to write over the whole run.
MaxBytes == 3
\* Longest buffer passed to read.
MaxBuf == 2
\* Datagrams the channel that loses only by Lose may drop.
MaxLoss == 1
\* Datagrams the same channel may deliver a second time.
MaxDup == 1
\* Calls of accept made by the listener's thread.
MaxAccepts == 2
\* The longest payload of the packets encoded and decoded on their own.
MaxData == 2
\* The longest byte source given to Packet::stream, and the calls of the
\* setters made on one PacketStream.
MaxSource == 5
MaxSets == 2
\* The rank, in one step of write, of the send that fails is at most this.
MaxFull == 1
\* The bytes each end writes where both ends write.
MaxDuplex == 2
\* Datagrams sent by a peer that does not follow the protocol.
MaxForge == 1
\* Calls of shutdown on one stream that take a sequence number for a FIN.
MaxShutdowns == 2

\* The budgets where a receive times out only when nothing is on its way
\* and the channel drops at most MaxLoss datagrams: as in the code, more
\* attempts than the channel can defeat.
FairBudget == (MaxLoss + 1) * (MaxBytes + 1) + 1

\* A budget runs out by timeouts: it is scaled down where they are free.
Attempts == IF env.timers = "idle" THEN FairBudget ELSE Budget

\* The tries of shutdown (30, against 1 << 14 attempts elsewhere): more than
\* the channel can defeat by dropping a FIN or by delivering a stale datagram
\* in place of the FIN-ACK, fewer than the attempts of reliable_send.
FinTries == IF env.timers = "idle" THEN MaxLoss + MaxDup + 2 ELSE Budget

----------------------------------------------------------------------------
(* Addresses.  A socket is named by its address.                           *)

ListenerAddr == 100
NoAddr == 0
ClientAddrs == {101, 102}
DispatchedAddr(k) == 200 + k
DispatchedAddrs == {DispatchedAddr(k) : k \in 1..MaxAccepts}
StreamAddrs == ClientAddrs \cup DispatchedAddrs

\* The UDP address of the router, and the proxy field of the endpoint on
\* socket a: of a client's stream (connect_with_proxy), of the listener
\* (bind_with_proxy) and of the streams it dispatches (line 222).
ProxyAddr == 50
ProxyOf(a) ==
    IF a \in ClientAddrs
    THEN IF env.proxy \in {"client", "both"} THEN ProxyAddr ELSE NoAddr
    ELSE IF env.proxy \in {"listener", "both"} THEN ProxyAddr ELSE NoAddr

\* proxy.map(Into::into).unwrap_or(peer)
ProxyOr(a, peer) == IF ProxyOf(a) # NoAddr THEN ProxyOf(a) ELSE peer

NoSeq == -1

----------------------------------------------------------------------------
(* Packets (packet.rs).                                                    *)

PacketTypes == {"Ack", "Syn", "SynAck", "Nak", "Data", "Fin", "FinAck", "Flush", "Invalid"}

Packet(t, n, peer, d) == [ptyp |-> t, nseq |-> n, peer |-> peer, data |-> d]

NoPacket == Packet("Invalid", NoSeq, NoAddr, <<>>)

\* The content of a datagram of fewer than MIN_PACKET_SIZE (11) bytes.
Undecodable == Packet("Undecodable", NoSeq, NoAddr, <<>>)

\* serialize_addr / deserialize_addr: the endpoint carried in a SYN or SYN-ACK.
serialize_addr(a) == <<a>>
deserialize_addr(d) == d[1]

Datagram(src, dst, p) == [src |-> src, dst |-> dst, pkt |-> p]

\* Packet::stream(buf).seq(first): chunks of at most PayloadCap bytes with
\* consecutive sequence numbers.
RECURSIVE PacketStream(_, _, _)
PacketStream(buf, seq, peer) ==
    IF buf = <<>> THEN <<>>
    ELSE LET n == IF Len(buf) < PayloadCap THEN Len(buf) ELSE PayloadCap
         IN  <<Packet("Data", seq, peer, SubSeq(buf, 1, n))>>
             \o PacketStream(SubSeq(buf, n + 1, Len(buf)), seq + 1, peer)

\* truncate_left
TruncateLeft(d, n) == SubSeq(d, n + 1, Len(d))

Min(a, b) == IF a < b THEN a ELSE b

MapInsert(f, k, v) == (k :> v) @@ f
MapRemove(f, k) == [x \in DOMAIN f \ {k} |-> f[x]]

Ok(v) == [kind |-> "Ok", val |-> v]
Err(e) == [kind |-> "Err", val |-> e]

\* Packet::try_from (packet.rs 121-153): fewer than 11 bytes is an error.
try_from(p) == IF p = Undecodable THEN Err("malformed") ELSE Ok(p)

\* The packets on the wire (packet.rs 55-78, 118-154, 289-317): the header
\* is the type (1 byte), nseq (4 bytes, big endian), peer (4 octets) and
\* port (2 bytes, big endian); a Packet here has those five fields.

\* From<PacketType> for u8, with every type encoded as 0.
TypeByteZero(t) == 0

\* From<PacketType> for u8
TypeByte(t) ==
    CASE t = "Ack" -> 0 [] t = "Syn" -> 1 [] t = "SynAck" -> 2 [] t = "Nak" -> 3
      [] t = "Data" -> 4 [] t = "Fin" -> 5 [] t = "FinAck" -> 6 [] OTHER -> 255

\* From<u8> for PacketType
ByteType(b) ==
    CASE b = 0 -> "Ack" [] b = 1 -> "Syn" [] b = 2 -> "SynAck" [] b = 3 -> "Nak"
      [] b = 4 -> "Data" [] b = 5 -> "Fin" [] b = 6 -> "FinAck" [] OTHER -> "Invalid"

\* to_be_bytes of an integer of k bytes, and from_be_bytes.
RECURSIVE to_be_bytes(_, _)
to_be_bytes(n, k) ==
    IF k = 0 THEN <<>> ELSE Append(to_be_bytes(n \div 256, k - 1), n % 256)

RECURSIVE from_be_bytes(_)
from_be_bytes(b) ==
    IF b = <<>> THEN 0
    ELSE 256 * from_be_bytes(SubSeq(b, 1, Len(b) - 1)) + b[Len(b)]

\* Packet::raw / write_to
raw(p) ==
    <<TypeByte(p.ptyp)>> \o to_be_bytes(p.nseq, 4) \o p.peer
        \o to_be_bytes(p.port, 2) \o p.data

\* TryFrom<&[u8]> for Packet
TryFromBytes(buf) ==
    IF Len(buf) < 11 THEN Err("malformed")
    ELSE Ok([ ptyp |-> ByteType(buf[1]),
              nseq |-> from_be_bytes(SubSeq(buf, 2, 5)),
              peer |-> SubSeq(buf, 6, 9),
              port |-> from_be_bytes(SubSeq(buf, 10, 11)),
              data |-> SubSeq(buf, 12, Len(buf)) ])

\* The endpoint in a payload can be deserialized: it has its 6 bytes (here
\* one element); deserialize_addr panics on a shorter payload.
HasEndpoint(p) == Len(p.data) >= 1

----------------------------------------------------------------------------
(* The UdpxStream (transport.rs 281-295) and the locals of the call that   *)
(* runs on it.                                                             *)

\* UdpxStream::new
NewStream(nseq, remote, conn) ==
    [ exists |-> TRUE, remote |-> remote, conn |-> conn, next_nseq |-> nseq,
      packets_received |-> <<>>, packets_sent |-> <<>>, closed |-> FALSE,
      err |-> FALSE, last_nseq |-> NoSeq, handshake_ack |-> NoPacket,
      got_flush |-> FALSE ]

NoStream == [NewStream(0, NoAddr, NoAddr) EXCEPT !.exists = FALSE]

FIRST_NSEQ == 3

\* with_starting_data / load_initial_data_packets: only DATA packets are kept.
with_starting_data(s, p) ==
    IF p.ptyp = "Data"
    THEN [s EXCEPT !.packets_received = MapInsert(@, p.nseq, p)]
    ELSE s

Idle ==
    [ op |-> "none", pc |-> "idle", buflen |-> 0, red |-> <<>>, skipped |-> 0,
      n |-> 0, i |-> 0, blk |-> 0, invalid |-> FALSE ]

\* A thread between two receives: the stream, the call's locals, the
\* datagrams sent on the way, the value returned (when pc = "ret"), the
\* DATA packets taken in hand by read (for the claims), and which of the
\* sends of the step fails with WouldBlock (full: 0 is none, 1 the next).
Machine(self, s, c) ==
    [ self |-> self, st |-> s, c |-> c, out |-> {}, ret |-> Ok(0), acks |-> {},
      full |-> 0 ]

Return(m, r) == [m EXCEPT !.c.pc = "ret", !.ret = r]
Block(m) == [m EXCEPT !.c.pc = "recv"]
\* sock.send / sock.send_to
SendTo(m, dst, p) == [m EXCEPT !.out = @ \cup {Datagram(m.self, dst, p)}]

received_last_packet(s) == s.last_nseq # NoSeq /\ s.next_nseq >= s.last_nseq
is_closed(s) == s.closed /\ received_last_packet(s)
cannot_read_anymore(s) == s.err \/ is_closed(s)

\* registered_err that does not look at is_closed.
registered_err_unclosed(s) ==
    IF s.err THEN Err("io") ELSE Ok(0)

registered_err(s) ==
    IF is_closed(s) THEN Err("closed")
    ELSE IF s.err THEN Err("io")
    ELSE Ok(0)

\* maybe_registered_err without the exception for the closed stream: with
\* nothing read, the registered error is returned whatever it is.
maybe_registered_err_strict(s, red) ==
    LET e == registered_err(s)
    IN  IF e.kind = "Err"
        THEN IF red > 0
             THEN [some |-> TRUE, val |-> Ok(red)]
             ELSE [some |-> TRUE, val |-> e]
        ELSE [some |-> FALSE, val |-> Ok(0)]

\* maybe_registered_err: some |-> FALSE is None.
maybe_registered_err(s, red) ==
    LET e == registered_err(s)
    IN  IF e.kind = "Err"
        THEN IF red > 0 \/ e.val = "closed"
             THEN [some |-> TRUE, val |-> Ok(red)]
             ELSE [some |-> TRUE, val |-> e]
        ELSE [some |-> FALSE, val |-> Ok(0)]

acknowledge_packet(m, p) ==
    [SendTo(m, m.st.conn, Packet("Ack", p.nseq, m.st.remote, <<>>))
        EXCEPT !.acks = @ \cup {p.nseq}]

buffer_and_ack(m, p) ==
    LET a == acknowledge_packet(m, p)
    IN  IF p.nseq \in DOMAIN a.st.packets_received THEN a
        ELSE [a EXCEPT !.st.packets_received = MapInsert(@, p.nseq, p)]

\* fin_ack: the FIN-ACK is sent 100 times; packet_defaults leaves nseq 0.
fin_ack(m) == SendTo(m, m.st.conn, Packet("FinAck", 0, m.st.remote, <<>>))

\* do_flush: the FLUSH is sent 100 times; packet_defaults leaves nseq 0.
do_flush(m) == SendTo(m, m.st.conn, Packet("Flush", 0, m.st.remote, <<>>))

----------------------------------------------------------------------------
(* UdpxStream::read (transport.rs 706-848).                                *)

RECURSIVE ReadLoop(_), ReadConsume(_, _)

\* The head of the while loop, down to the receive.
ReadLoop(m) ==
    LET red == Len(m.c.red)
    IN  IF ~(red < m.c.buflen /\ m.c.skipped > 0) THEN Return(m, Ok(red))
        ELSE LET e == maybe_registered_err(m.st, red)
             IN  IF e.some THEN Return(m, e.val)
                 ELSE IF m.st.next_nseq \in DOMAIN m.st.packets_received
                      THEN ReadConsume(
                             [m EXCEPT !.st.packets_received = MapRemove(@, m.st.next_nseq)],
                             m.st.packets_received[m.st.next_nseq])
                      ELSE Block(m)

\* ReadConsume without lines 841-845: the bytes of a packet that do not fit
\* the buffer are dropped with the packet.
ReadConsumeDropsRest(m, transfer) ==
    LET n == Min(Len(transfer.data), m.c.buflen - Len(m.c.red))
        m2 == [m EXCEPT !.c.red = @ \o SubSeq(transfer.data, 1, n),
                        !.st.next_nseq = @ + 1]
    IN  IF received_last_packet(m2.st)
        THEN Return(m2, Ok(Len(m2.c.red)))
        ELSE ReadLoop(m2)

\* Lines 824-846: copy what fits, keep the remainder under the same seq.
ReadConsume(m, transfer) ==
    LET n == Min(Len(transfer.data), m.c.buflen - Len(m.c.red))
        m1 == [m EXCEPT !.c.red = @ \o SubSeq(transfer.data, 1, n)]
        rest == TruncateLeft(transfer.data, n)
    IN  IF rest = <<>>
        THEN LET m2 == [m1 EXCEPT !.st.next_nseq = @ + 1]
             IN  IF received_last_packet(m2.st)
                 THEN Return(m2, Ok(Len(m2.c.red)))
                 ELSE ReadLoop(m2)
        ELSE ReadLoop([m1 EXCEPT !.st.packets_received =
                          MapInsert(@, transfer.nseq, [transfer EXCEPT !.data = rest])])

\* Lines 767-821: a datagram was received and decoded.
ReadPacket(m, p) ==
    LET red == Len(m.c.red)
        first_flush == p.ptyp = "Flush" /\ ~m.st.got_flush
        m1 == IF first_flush
              THEN [m EXCEPT !.st.got_flush = TRUE, !.st.last_nseq = p.nseq]
              ELSE m
    IN  IF first_flush /\ m.st.next_nseq >= p.nseq THEN Return(m1, Ok(red))
        ELSE IF p.ptyp = "Fin"
        THEN LET m2 == fin_ack([m1 EXCEPT !.st.last_nseq = p.nseq, !.st.closed = TRUE])
             IN  IF cannot_read_anymore(m2.st) THEN Return(m2, Ok(red))
                 ELSE ReadLoop(m2)
        ELSE IF p.nseq < m1.st.next_nseq THEN ReadLoop(acknowledge_packet(m1, p))
        ELSE IF p.nseq # m1.st.next_nseq THEN ReadLoop(buffer_and_ack(m1, p))
        ELSE ReadConsume(acknowledge_packet(m1, p), p)

\* Lines 733-765: what the receive returned.
ReadRecv(m, o) ==
    LET red == Len(m.c.red)
    IN  CASE o.kind = "TimedOut" -> Return(m, Ok(red))
          [] o.kind = "WouldBlock" ->
                IF red > 0 THEN Return(m, Ok(red))
                ELSE ReadLoop([m EXCEPT !.c.skipped = @ - 1])
          [] o.kind = "Other" -> Return([m EXCEPT !.st.err = TRUE], Ok(red))
          [] OTHER ->
                IF try_from(o.d.pkt).kind = "Err" THEN Return(m, try_from(o.d.pkt))
                ELSE ReadPacket(m, o.d.pkt)

\* let mut red = 0; let mut skipped = 1 << 14
ReadCall(m, buflen) ==
    ReadLoop([m EXCEPT !.c = [Idle EXCEPT !.op = "read", !.buflen = buflen,
                                          !.skipped = Attempts]])

----------------------------------------------------------------------------
(* UdpxStream::write (transport.rs 852-1036).  A send of a DATA packet     *)
(* succeeds or fails with WouldBlock (lines 899-943); the arms for the     *)
(* other errors of a send (lines 897-898, 945) are not modelled.           *)

RECURSIVE SendAll(_, _), WriteInner(_), WriteOuter(_)
\* Lines 885-947: every queued packet is (re)sent, down to the first
\* receive: the one after a send that failed with WouldBlock (line 912;
\* blk keeps the place in the for loop), or the first of the wait for ACKs.
SendAll(m, seqs) ==
    IF seqs = {}
    THEN WriteInner([m EXCEPT !.c.i = Cardinality(DOMAIN m.st.packets_sent)])
    ELSE LET k == CHOOSE x \in seqs : \A y \in seqs : x <= y
         IN  IF m.full = 1
             THEN Block([m EXCEPT !.full = 0, !.c.skipped = @ - 1, !.c.blk = k])
             ELSE SendAll(SendTo([m EXCEPT !.full = IF @ > 0 THEN @ - 1 ELSE 0],
                                 m.st.conn, m.st.packets_sent[k]),
                          seqs \ {k})

\* Enqueue that leaves next_nseq where it was.
EnqueueSameSeq(s, ps) ==
    [s EXCEPT !.packets_sent =
        [k \in DOMAIN @ \cup {ps[i].nseq : i \in 1..Len(ps)} |->
            IF \E i \in 1..Len(ps) : ps[i].nseq = k
            THEN ps[CHOOSE i \in 1..Len(ps) : ps[i].nseq = k]
            ELSE @[k]]]

RECURSIVE Enqueue(_, _)
\* Lines 862-872: each chunk is queued under its seq and next_nseq advances.
Enqueue(s, ps) ==
    IF ps = <<>> THEN s
    ELSE Enqueue([s EXCEPT !.packets_sent = MapInsert(@, Head(ps).nseq, Head(ps)),
                           !.next_nseq = @ + 1],
                 Tail(ps))

\* The inner while (i > 0): the next receive, or back to the outer loop.
WriteInner(m) ==
    IF m.c.i > 0 THEN Block([m EXCEPT !.c.i = @ - 1]) ELSE WriteOuter(m)

\* The head of the send/ACK loop (line 878) down to the first receive.
WriteOuter(m) ==
    IF ~(DOMAIN m.st.packets_sent # {} /\ m.c.skipped > 0) THEN Return(m, Ok(m.c.n))
    ELSE LET e == maybe_registered_err(m.st, m.c.n)
         IN  IF e.some THEN Return(m, e.val)
             ELSE SendAll(m, DOMAIN m.st.packets_sent)

\* Lines 1016-1027: the stored handshake ACK is sent again.
resend_handshake_ack(m) ==
    IF m.st.handshake_ack # NoPacket
    THEN SendTo(m, m.st.conn, m.st.handshake_ack)
    ELSE m

\* Lines 988-1032: a datagram was received while waiting for ACKs.
WritePacket(m, p) ==
    CASE p.ptyp = "Ack" ->
            IF p.nseq \in DOMAIN m.st.packets_sent
            THEN WriteInner([m EXCEPT !.st.packets_sent = MapRemove(@, p.nseq),
                                      !.c.n = @ + Len(m.st.packets_sent[p.nseq].data)])
            ELSE WriteInner(m)
      [] p.ptyp = "Data" -> WriteInner(buffer_and_ack(m, p))
      [] p.ptyp = "SynAck" ->
            WriteInner([resend_handshake_ack(m) EXCEPT !.c.i = @ + 1])
      [] OTHER -> WriteInner(m)

\* Lines 912-943: what the receive after a send that failed with WouldBlock
\* returned; the for loop goes on with the packets after the one not sent.
WriteSendRecv(m, o) ==
    LET rest == {x \in DOMAIN m.st.packets_sent : x > m.c.blk}
        m0 == [m EXCEPT !.c.blk = 0]
        p == o.d.pkt
    IN  IF o.kind # "pkt" THEN SendAll(m0, rest)
        ELSE IF try_from(p).kind = "Err" THEN Return(m0, try_from(p))
        ELSE IF p.ptyp = "Data"
        THEN SendAll([m0 EXCEPT !.st.packets_received = MapInsert(@, p.nseq, p)], rest)
        ELSE IF p.ptyp = "SynAck" THEN SendAll(resend_handshake_ack(m0), rest)
        ELSE SendAll(m0, rest)

\* Lines 963-984: what the receive returned.
WriteRecv(m, o) ==
    IF m.c.blk # 0 THEN WriteSendRecv(m, o) ELSE
    CASE o.kind = "TimedOut" -> WriteOuter(m)
      [] o.kind = "WouldBlock" ->
            LET m1 == [m EXCEPT !.c.skipped = @ - 1]
            IN  IF m1.c.skipped = 0 THEN WriteOuter(m1) ELSE WriteInner(m1)
      [] o.kind = "Other" -> Return([m EXCEPT !.st.err = TRUE], Err("io"))
      [] OTHER ->
            IF try_from(o.d.pkt).kind = "Err" THEN Return(m, try_from(o.d.pkt))
            ELSE WritePacket(m, o.d.pkt)

WriteCall(m, buf) ==
    LET e == registered_err(m.st)
    IN  IF e.kind = "Err" THEN Return(m, e)
        ELSE LET s1 == Enqueue(m.st, PacketStream(buf, m.st.next_nseq, m.st.remote))
             IN  WriteOuter([m EXCEPT !.st = s1,
                                      !.c = [Idle EXCEPT !.op = "write", !.skipped = Attempts,
                                                          !.buflen = Len(buf)]])

----------------------------------------------------------------------------
(* Stream::shutdown for UdpxStream (transport.rs 619-698).                 *)

\* FinPacket numbered one past the sequence number shutdown has taken.
FinPacketNextSeq(s) == Packet("Fin", s.last_nseq + 1, s.remote, <<>>)

\* Lines 632-645: the FIN carries the sequence number after the last DATA.
FinPacket(s) == Packet("Fin", s.last_nseq, s.remote, <<>>)

\* One turn of "for _ in 0..30": send the FIN, then wait for the FIN-ACK.
ShutdownLoop(m) ==
    IF m.c.i < FinTries
    THEN Block([SendTo(m, m.st.conn, FinPacket(m.st)) EXCEPT !.c.i = @ + 1])
    ELSE Return([m EXCEPT !.st.closed = TRUE], Ok(0))

\* Lines 671-693: what the receive returned.  The error of a datagram that
\* cannot be decoded is returned (line 673) before line 696.
ShutdownRecv(m, o) ==
    IF o.kind = "pkt" /\ try_from(o.d.pkt).kind = "Err"
    THEN Return(m, try_from(o.d.pkt))
    ELSE IF o.kind = "pkt" /\ o.d.pkt.ptyp \in {"FinAck", "Fin"}
    THEN Return([m EXCEPT !.st.closed = TRUE], Ok(0))
    ELSE ShutdownLoop(m)

ShutdownCall(m) ==
    IF cannot_read_anymore(m.st) THEN Return(m, Ok(0))
    ELSE ShutdownLoop([m EXCEPT !.st.last_nseq = m.st.next_nseq,
                                !.st.next_nseq = @ + 1,
                                !.c = [Idle EXCEPT !.op = "shutdown"]])

----------------------------------------------------------------------------
(* reliable_send (transport.rs 1127-1230).  The locals i, block_limit and  *)
(* "invalid_response_packets is not empty" live in the caller's record r.  *)

\* ReliableLoop that sends the datagram once and never again.
ReliableLoopSendOnce(r, dgram) ==
    IF r.i < Attempts
    THEN [r EXCEPT !.i = @ + 1, !.pc = "recv",
                   !.out = IF r.out = {} /\ r.i = 0 /\ r.blk = Attempts
                           THEN {dgram} ELSE @]
    ELSE [r EXCEPT !.pc = "ret",
                   !.ret = IF r.invalid THEN Err("InvalidResponses") ELSE Err("TimedOut")]

\* A head of the loop that sends without counting the attempt.
ReliableLoopUncounted(r, dgram) ==
    IF r.i < Attempts
    THEN [r EXCEPT !.pc = "recv", !.out = @ \cup {dgram}]
    ELSE [r EXCEPT !.pc = "ret",
                   !.ret = IF r.invalid THEN Err("InvalidResponses") ELSE Err("TimedOut")]

\* The head of the while loop: the datagram is sent (again), or the
\* attempts are used up.
ReliableLoop(r, dgram) ==
    IF r.i < Attempts
    THEN [r EXCEPT !.i = @ + 1, !.pc = "recv", !.out = @ \cup {dgram}]
    ELSE [r EXCEPT !.pc = "ret",
                   !.ret = IF r.invalid THEN Err("InvalidResponses") ELSE Err("TimedOut")]

\* What recv_from returned.  An accepted response is returned with the
\* endpoint its payload names (SYN, SYN-ACK) or its source address.
ReliableRecv(r, o, dgram, peer, recv_packet_types, skip_address_mismatch) ==
    CASE o.kind = "TimedOut" -> ReliableLoop(r, dgram)
      [] o.kind = "WouldBlock" ->
            IF r.blk = 0 THEN [r EXCEPT !.pc = "ret", !.ret = Err("WouldBlock")]
            ELSE ReliableLoop([r EXCEPT !.blk = @ - 1, !.i = @ - 1], dgram)
      [] o.kind = "Other" -> [r EXCEPT !.pc = "ret", !.ret = Err("io")]
      [] OTHER ->
            IF skip_address_mismatch /\ o.d.src # peer THEN ReliableLoop(r, dgram)
            ELSE IF try_from(o.d.pkt).kind = "Err"
            THEN [r EXCEPT !.pc = "ret", !.ret = try_from(o.d.pkt)]
            ELSE IF o.d.pkt.ptyp \notin recv_packet_types
            THEN ReliableLoop([r EXCEPT !.invalid = TRUE], dgram)
            ELSE IF o.d.pkt.ptyp \in {"Syn", "SynAck"} /\ ~HasEndpoint(o.d.pkt)
            THEN [r EXCEPT !.pc = "ret", !.ret = Err("panic")]
            ELSE [r EXCEPT !.pc = "ret", !.ret = Ok(0), !.resp = o.d.pkt,
                           !.remote = IF o.d.pkt.ptyp \in {"Syn", "SynAck"}
                                      THEN deserialize_addr(o.d.pkt.data)
                                      ELSE o.d.src]

\* let mut i = 0; let mut block_limit = RELIABLE_SEND_MAX_ATTEMPTS
ReliableCall(self, dgram) ==
    ReliableLoop([ self |-> self, i |-> 0, blk |-> Attempts, invalid |-> FALSE,
                   pc |-> "run", ret |-> Ok(0), resp |-> NoPacket,
                   remote |-> NoAddr, out |-> {} ], dgram)

----------------------------------------------------------------------------
(* The environment: the platform, the channel and the timers.              *)

NoDatagram == Datagram(NoAddr, NoAddr, NoPacket)

NoOutcome == [kind |-> "none", d |-> NoDatagram, keep |-> FALSE]

\* The error kind of a receive that timed out: std documents WouldBlock on
\* Unix and TimedOut on Windows.
TimeoutKind == IF env.platform = "unix" THEN "WouldBlock" ELSE "TimedOut"

\* The datagrams a receive on socket a can return; a connected socket only
\* takes datagrams of its peer.
Candidates(a, conn) ==
    {d \in net : d.dst = a /\ (conn = NoAddr \/ d.src = conn)}

\* The network after a step that received o and sent out.
NetAfter(o, out) ==
    IF env.channel = "lossy" \/ o.keep THEN net \cup out ELSE (net \ {o.d}) \cup out

----------------------------------------------------------------------------
(* History variables.                                                      *)

\* The k-th byte endpoint s passes to write.
ByteOf(s, k) == IF s \in ClientAddrs THEN k ELSE 10 + k

Bytes(s, from, to) == [k \in 1..(to - from + 1) |-> ByteOf(s, from + k - 1)]

\* The sends of one step that may fail with WouldBlock (the socket's send
\* buffer is full): none, or the one of that rank.
SendFailures == IF env.sends = "full" THEN 0..MaxFull ELSE {0}

IsWriter(s) == env.writer = "both" \/ ((s \in ClientAddrs) <=> (env.writer = "client"))

GhostInit ==
    [ written   |-> [s \in StreamAddrs |-> 0],
      shut      |-> [s \in StreamAddrs |-> NoSeq],
      delivered |-> [s \in StreamAddrs |-> <<>>],
      last      |-> [s \in StreamAddrs |-> [op |-> "none", ret |-> Ok(0), eof |-> FALSE]],
      connect   |-> [c \in ClientAddrs |-> "none"],
      accepts   |-> <<>>,
      seen      |-> {},
      fresh     |-> {},
      lost      |-> 0,
      dups      |-> 0,
      lost_first_synack |-> {},
      dropped   |-> [s \in StreamAddrs |-> "no"],
      sends     |-> {},
      fins      |-> [s \in StreamAddrs |-> 0],
      forged    |-> 0 ]

\* The history after a step of the call on stream s that ended in m: when
\* the call returns, what it returned, whether the stream was at end of
\* stream when it was called, and the bytes read.
GhostAfter(s, m) ==
    IF m.c.pc # "ret" THEN ghost
    ELSE [ghost EXCEPT
            !.last[s] = [op |-> m.c.op, ret |-> m.ret, eof |-> is_closed(st[s])],
            !.delivered[s] = IF m.c.op = "read" /\ m.ret.kind = "Ok"
                             THEN @ \o m.c.red ELSE @]

----------------------------------------------------------------------------
(* Timers.  Where env.timers is "any" a receive may time out at any time   *)
(* (its thread or its peer was slow).  Where it is "idle" threads and      *)
(* datagrams are faster than the timeouts: a receive times out only when   *)
(* no thread can take a step without a timeout, and the receive that has   *)
(* waited longest times out first.                                         *)

ListenerThread == ListenerAddr

CanCall(s) == st[s].exists /\ call[s].op = "none"
\* The application that probes makes, on a stream that is closed, the calls
\* of the other end too: the reader writes and shuts down, the writer reads.
Probing(s) == env.app = "probe" /\ is_closed(st[s])
\* The scripted writer writes, shuts down once, and makes no call after.
CanSend(s) ==
    /\ CanCall(s) /\ (IsWriter(s) \/ Probing(s))
    /\ env.app = "script" => ghost.shut[s] = NoSeq
CanConnect(c) == c \in env.clients /\ call[c].op = "none" /\ ghost.connect[c] = "none"
CanAccept == lst.pc = "idle" /\ lst.calls < MaxAccepts

\* The application on stream s has a call to make: the writer until it has
\* shut down, the reader until the end of the stream.
AppReady(s) ==
    /\ CanCall(s) /\ env.app # "none"
    /\ IF IsWriter(s) THEN ghost.shut[s] = NoSeq ELSE ~cannot_read_anymore(st[s])

Busy ==
    \/ \E s \in StreamAddrs : call[s].pc = "recv" /\ Candidates(s, st[s].conn) # {}
    \/ lst.pc = "recv" /\ Candidates(lst.sock, NoAddr) # {}
    \/ CanAccept /\ Candidates(ListenerAddr, NoAddr) # {}
    \/ \E c \in ClientAddrs : CanConnect(c)
    \/ \E s \in StreamAddrs : AppReady(s)

MayTimeOut(t) ==
    \/ env.timers = "any"
    \/ ~Busy /\ waits # <<>> /\ Head(waits) = t

\* The datagrams a receive on socket a may return, with what the channel
\* does: it delivers the datagram, or delivers it and keeps a copy.
Received(a, conn) ==
    LET keeps == IF env.channel = "fair" /\ ghost.dups < MaxDup
                 THEN {FALSE, TRUE} ELSE {FALSE}
    IN  {[kind |-> "pkt", d |-> d, keep |-> k] : d \in Candidates(a, conn), k \in keeps}

\* What a receive of thread t on socket a returns.
Outcomes(t, a, conn) ==
    Received(a, conn)
    \cup (IF MayTimeOut(t)
          THEN {[kind |-> TimeoutKind, d |-> NoDatagram, keep |-> FALSE]} ELSE {})
    \cup (IF env.errors
          THEN {[kind |-> "Other", d |-> NoDatagram, keep |-> FALSE]} ELSE {})

\* The count of the copies kept, after a step that received o.
Counted(g, o) == IF o.keep THEN [g EXCEPT !.dups = @ + 1] ELSE g

\* The waiting threads after a step of thread t that ends in a receive
\* (blocked) or not.
WaitsAfter(t, blocked) ==
    LET others == SelectSeq(waits, LAMBDA x : x # t)
    IN  IF env.timers = "any" THEN <<>>
        ELSE IF blocked THEN Append(others, t) ELSE others

\* The step of a call on stream s is committed.  (The actions bind the
\* machine m with \E m \in {...}, so that it is computed once.)
Commit(s, m, o) ==
    /\ st' = [st EXCEPT ![s] = m.st]
    /\ call' = [call EXCEPT ![s] = IF m.c.pc = "ret" THEN Idle ELSE m.c]
    /\ net' = NetAfter(o, m.out)
    /\ waits' = WaitsAfter(s, m.c.pc = "recv")
    /\ ghost' = Counted(GhostAfter(s, m), o)
    /\ UNCHANGED <<codec, env, lst>>

----------------------------------------------------------------------------
(* The calls of the application on a stream.                               *)

Read(s) ==
    /\ CanCall(s) /\ (~IsWriter(s) \/ env.writer = "both" \/ Probing(s))
    /\ \E buflen \in 1..MaxBuf :
          \E m \in {ReadCall(Machine(s, st[s], Idle), buflen)} :
              Commit(s, m, NoOutcome)

ReadStep(s) ==
    /\ call[s].op = "read" /\ call[s].pc = "recv"
    /\ \E o \in Outcomes(s, s, st[s].conn) :
          \E m \in {ReadRecv(Machine(s, st[s], call[s]), o)} :
              Commit(s, m, o)

Write(s) ==
    /\ CanSend(s)
    /\ \E len \in (IF env.app = "bulk" THEN {env.cap - ghost.written[s]} \ {0}
                    ELSE 1..(env.cap - ghost.written[s])) :
          \E f \in SendFailures :
          \E m \in {WriteCall([Machine(s, st[s], Idle) EXCEPT !.c.op = "write", !.full = f],
                               Bytes(s, ghost.written[s] + 1, ghost.written[s] + len))} :
              /\ st' = [st EXCEPT ![s] = m.st]
              /\ call' = [call EXCEPT ![s] = IF m.c.pc = "ret" THEN Idle ELSE m.c]
              /\ net' = NetAfter(NoOutcome, m.out)
              /\ waits' = WaitsAfter(s, m.c.pc = "recv")
              /\ ghost' = [GhostAfter(s, m) EXCEPT !.written[s] = @ + len]
              /\ UNCHANGED <<codec, env, lst>>

WriteStep(s) ==
    /\ call[s].op = "write" /\ call[s].pc = "recv"
    /\ \E o \in Outcomes(s, s, st[s].conn) :
          \E f \in SendFailures :
          \E m \in {WriteRecv([Machine(s, st[s], call[s]) EXCEPT !.full = f], o)} :
              Commit(s, m, o)

Shutdown(s) ==
    /\ CanSend(s)
    /\ cannot_read_anymore(st[s]) \/ ghost.fins[s] < MaxShutdowns
    /\ \E m \in {ShutdownCall([Machine(s, st[s], Idle) EXCEPT !.c.op = "shutdown"])} :
           /\ st' = [st EXCEPT ![s] = m.st]
           /\ call' = [call EXCEPT ![s] = IF m.c.pc = "ret" THEN Idle ELSE m.c]
           /\ net' = NetAfter(NoOutcome, m.out)
           /\ waits' = WaitsAfter(s, m.c.pc = "recv")
           /\ ghost' = [GhostAfter(s, m) EXCEPT
                           !.shut[s] = IF @ = NoSeq THEN ghost.written[s] ELSE @,
                           !.fins[s] = IF m.out = {} THEN @ ELSE @ + 1]
           /\ UNCHANGED <<codec, env, lst>>

ShutdownStep(s) ==
    /\ call[s].op = "shutdown" /\ call[s].pc = "recv"
    /\ \E o \in Outcomes(s, s, st[s].conn) :
          \E m \in {ShutdownRecv(Machine(s, st[s], call[s]), o)} :
              Commit(s, m, o)

----------------------------------------------------------------------------
(* UdpxStream::connect: the client side of the handshake (transport.rs     *)
(* 317-322, 388-445).                                                      *)

SynOf(c) == Packet("Syn", 0, ListenerAddr, serialize_addr(c))
SynDatagram(c) == Datagram(c, ProxyOr(c, ListenerAddr), SynOf(c))

\* The locals of reliable_send, kept in the caller's record between steps.
ReliableState(self, x) ==
    [ self |-> self, i |-> x.i, blk |-> x.blk, invalid |-> x.invalid,
      pc |-> "recv", ret |-> Ok(0), resp |-> NoPacket, remote |-> NoAddr,
      out |-> {} ]

\* The history of a call of reliable_send that returned: the socket, the
\* types accepted, the result, the type of the response returned and, when
\* the call failed, whether a response of another type was received.
Sent(r, accepted) ==
    [ sock |-> r.self, accepted |-> accepted,
      res |-> IF r.ret.kind = "Ok" THEN "ok" ELSE r.ret.val,
      typ |-> r.resp.ptyp, invalid |-> r.ret.kind = "Err" /\ r.invalid ]

\* Lines 425-444 (Ok) or the error of reliable_send: connect returns.
ConnectReturn(c, r, o) ==
    LET ack == Packet("Ack", r.resp.nseq + 1, r.remote, <<>>)
        ok == r.ret.kind = "Ok"
        out == IF ok THEN r.out \cup {Datagram(c, ProxyOr(c, r.remote), ack)} ELSE r.out
    IN  /\ st' = [st EXCEPT ![c] =
                    IF ok
                    THEN [NewStream(FIRST_NSEQ, r.remote, ProxyOr(c, r.remote))
                             EXCEPT !.handshake_ack = ack]
                    ELSE @]
        /\ call' = [call EXCEPT ![c] = Idle]
        /\ net' = NetAfter(o, out)
        /\ waits' = WaitsAfter(c, FALSE)
        /\ ghost' = Counted([ghost EXCEPT
                                !.connect[c] = IF ok THEN "ok" ELSE r.ret.val,
                                !.sends = @ \cup {Sent(r, {"SynAck"})}], o)

Connect(c) ==
    /\ CanConnect(c)
    /\ LET r == ReliableCall(c, SynDatagram(c))
       IN  /\ call' = [call EXCEPT ![c] = [Idle EXCEPT !.op = "connect", !.pc = "recv",
                                                      !.i = r.i, !.blk = r.blk]]
           /\ net' = NetAfter(NoOutcome, r.out)
           /\ waits' = WaitsAfter(c, TRUE)
    /\ UNCHANGED <<codec, env, st, lst, ghost>>

ConnectStep(c) ==
    /\ call[c].op = "connect" /\ call[c].pc = "recv"
    /\ \E o \in Outcomes(c, c, NoAddr) :
          \E r \in {ReliableRecv(ReliableState(c, call[c]), o, SynDatagram(c),
                                  ListenerAddr, {"SynAck"}, FALSE)} :
              IF r.pc = "recv"
              THEN /\ call' = [call EXCEPT ![c].i = r.i, ![c].blk = r.blk,
                                           ![c].invalid = r.invalid]
                   /\ net' = NetAfter(o, r.out)
                   /\ waits' = WaitsAfter(c, TRUE)
                   /\ ghost' = Counted(ghost, o)
                   /\ UNCHANGED st
              ELSE ConnectReturn(c, r, o)
    /\ UNCHANGED <<codec, env, lst>>

----------------------------------------------------------------------------
(* UdpxListener::accept and ::handshake (transport.rs 83-179, 196-233),    *)
(* called by the thread that owns the listener.  An entry of               *)
(* duplicate_syns is stale when its Instant is two seconds old or more.    *)
(* With the listener's thread are kept what ServerRunner::serve shares     *)
(* with it (server.rs 110-134, 274): the exit flag of the Handle, where    *)
(* the thread that calls Handle::shutdown is, and the tasks dispatched to  *)
(* the thread pool that have not finished.                                 *)

ListenerInit ==
    [ pc |-> "idle", duplicate_syns |-> {}, binds |-> 0, calls |-> 0,
      sock |-> NoAddr, syn |-> NoPacket, addr |-> NoAddr,
      i |-> 0, blk |-> 0, invalid |-> FALSE,
      exit |-> FALSE, handle |-> "idle", workers |-> {} ]

\* Lines 202-210: an equal packet was recorded less than 2 seconds ago.
IsDuplicateSyn(p) == \E e \in lst.duplicate_syns : e.pkt = p /\ ~e.stale

\* RecordSyn without line 211: the packet is not recorded.
RecordSynNot(dups, p) == dups

\* Line 211: HashMap::insert replaces the entry of an equal packet.
RecordSyn(dups, p) ==
    {e \in dups : e.pkt # p} \cup {[pkt |-> p, stale |-> FALSE]}

\* SynAckDatagram with the sequence number of the SYN.
SynAckDatagramSameSeq(sock, addr, syn) ==
    Datagram(sock, ProxyOr(sock, addr),
             Packet("SynAck", syn.nseq, deserialize_addr(syn.data),
                    serialize_addr(sock)))

SynAckDatagram(sock, addr, syn) ==
    Datagram(sock, ProxyOr(sock, addr),
             Packet("SynAck", syn.nseq + 1, deserialize_addr(syn.data),
                    serialize_addr(sock)))

\* The thread that called accept: it calls accept once (tests/utils,
\* simple_udpx), or runs the loop of ServerRunner::serve (server.rs 276-288),
\* which an error other than would-block ends, and a would-block error
\* when the exit flag is set.
AfterAccept(res) ==
    IF res = "panic" THEN "panicked"
    ELSE IF \/ env.listen = "once"
            \/ env.listen = "serve" /\ res \notin {"ok", "WouldBlock"}
            \/ env.listen = "serve" /\ res = "WouldBlock" /\ lst.exit
    THEN "stopped" ELSE "idle"

\* accept returns res; on success the stream strm lives on socket sock.  The
\* history g has an entry for this call: the packet received, whether an
\* equal packet was first received less than two seconds before (dup), the
\* socket bound if any, and the result.
AcceptReturn(res, l, sock, strm, o, out, g) ==
    /\ lst' = [l EXCEPT !.pc = AfterAccept(res), !.calls = @ + 1,
                        !.sock = NoAddr, !.syn = NoPacket, !.addr = NoAddr,
                        !.i = 0, !.blk = 0, !.invalid = FALSE,
                        !.workers = IF res = "ok" /\ env.listen = "serve"
                                    THEN @ \cup {sock} ELSE @]
    /\ st' = IF res = "ok" THEN [st EXCEPT ![sock] = strm] ELSE st
    /\ net' = NetAfter(o, out)
    /\ waits' = WaitsAfter(ListenerThread, FALSE)
    /\ ghost' = Counted([g EXCEPT !.accepts[Len(g.accepts)].res = res], o)

\* accept, from recv_from to the first receive of the handshake.
Accept ==
    /\ CanAccept
    /\ \E o \in Received(ListenerAddr, NoAddr) :
          LET d == o.d
              p == d.pkt
              sock == DispatchedAddr(lst.binds + 1)
              dgram == SynAckDatagram(sock, d.src, p)
              r == ReliableCall(sock, dgram)
              l1 == [lst EXCEPT !.syn = p]
              l2 == [l1 EXCEPT !.duplicate_syns = RecordSyn(@, p)]
              g == [ghost EXCEPT
                      !.accepts = Append(@, [res |-> "pending", sock |-> NoAddr,
                                             syn |-> p, dup |-> p \in ghost.fresh]),
                      !.seen = @ \cup {p},
                      !.fresh = IF p \in ghost.seen THEN @ ELSE @ \cup {p}]
          IN  IF try_from(p).kind = "Err"
              THEN AcceptReturn("malformed", lst, NoAddr, NoStream, o, {}, g)
              ELSE IF IsDuplicateSyn(p)
              THEN AcceptReturn("duplicate", l1, NoAddr, NoStream, o, {}, g)
              ELSE IF ~HasEndpoint(p)
              THEN AcceptReturn("panic", l2, NoAddr, NoStream, o, {}, g)
              ELSE IF p.ptyp # "Syn"
              THEN AcceptReturn("not a SYN", l2, NoAddr, NoStream, o, {}, g)
              ELSE /\ lst' = [l2 EXCEPT !.pc = "recv", !.binds = @ + 1, !.sock = sock,
                                        !.addr = d.src, !.i = r.i, !.blk = r.blk]
                   /\ net' = NetAfter(o, r.out)
                   /\ waits' = WaitsAfter(ListenerThread, TRUE)
                   /\ ghost' = Counted([g EXCEPT !.accepts[Len(g.accepts)].sock = sock], o)
                   /\ UNCHANGED st
    /\ UNCHANGED <<codec, env, call>>

\* Lines 152-178 and 222-232: the response to the SYN-ACK is in hand.
AcceptStep ==
    /\ lst.pc = "recv"
    /\ \E o \in Outcomes(ListenerThread, lst.sock, NoAddr) :
          \E r \in {ReliableRecv(ReliableState(lst.sock, lst), o,
                                  SynAckDatagram(lst.sock, lst.addr, lst.syn),
                                  lst.addr, {"Ack", "Data"}, TRUE)} :
          LET nseq == lst.syn.nseq + 3
              g == [ghost EXCEPT !.sends = @ \cup {Sent(r, {"Ack", "Data"})}]
              strm == with_starting_data(
                         NewStream(nseq, deserialize_addr(lst.syn.data), lst.addr),
                         r.resp)
          IN  IF r.pc = "recv"
              THEN /\ lst' = [lst EXCEPT !.i = r.i, !.blk = r.blk, !.invalid = r.invalid]
                   /\ net' = NetAfter(o, r.out)
                   /\ waits' = WaitsAfter(ListenerThread, TRUE)
                   /\ ghost' = Counted(ghost, o)
                   /\ UNCHANGED st
              ELSE IF r.ret.kind = "Err"
              THEN AcceptReturn(r.ret.val, lst, lst.sock, NoStream, o, r.out, g)
              ELSE IF r.resp.ptyp = "Ack" /\ r.resp.nseq # lst.syn.nseq + 2
              THEN AcceptReturn("bad ACK seq", lst, lst.sock, NoStream, o, r.out, g)
              ELSE AcceptReturn("ok", lst, lst.sock, strm, o, r.out, g)
    /\ UNCHANGED <<codec, env, call>>

\* Two seconds have passed since a packet was recorded.
Age ==
    /\ \E e \in lst.duplicate_syns :
          /\ ~e.stale
          /\ lst' = [lst EXCEPT !.duplicate_syns =
                        (@ \ {e}) \cup {[e EXCEPT !.stale = TRUE]}]
          /\ ghost' = [ghost EXCEPT !.fresh = @ \ {e.pkt}]
    /\ UNCHANGED <<codec, env, net, waits, st, call>>

\* The channel drops a datagram.  The history records the clients whose
\* first SYN-ACK was dropped: the one SYN-ACK the handshake under way has
\* sent.
Lose ==
    /\ ghost.lost < MaxLoss
    /\ \E d \in net :
          /\ net' = net \ {d}
          /\ ghost' = [ghost EXCEPT
                          !.lost = @ + 1,
                          !.lost_first_synack =
                              IF /\ d.pkt.ptyp = "SynAck"
                                 /\ lst.pc = "recv" /\ lst.sock = d.src
                                 /\ lst.i = 1 /\ lst.blk = Attempts
                              THEN @ \cup {d.dst} ELSE @]
    /\ UNCHANGED <<codec, env, waits, st, call, lst>>

\* What a peer that does not follow the protocol sends: a datagram too short
\* to be decoded, a SYN and a SYN-ACK whose payload is too short to hold an
\* endpoint, and an ACK that acknowledges nothing the receiver has sent.
HostilePackets ==
    { Undecodable,
      Packet("Syn", 0, ListenerAddr, <<>>),
      Packet("SynAck", 1, NoAddr, <<>>),
      Packet("Ack", FIRST_NSEQ, NoAddr, <<>>) }

\* The sockets that are open, each with an address it receives from: the
\* listener, the socket dispatched for the handshake under way, the socket of
\* a client in connect, the socket of a stream.
OpenSockets ==
    {<<c, ListenerAddr>> : c \in env.clients}
    \cup (IF lst.pc = "recv" THEN {<<lst.addr, lst.sock>>} ELSE {})
    \cup {<<ListenerAddr, c>> : c \in {x \in ClientAddrs : call[x].op = "connect"}}
    \cup {<<st[s].conn, s>> : s \in {x \in StreamAddrs : st[x].exists}}

\* A peer sends a datagram that the protocol does not have.
Forge ==
    /\ ghost.forged < MaxForge
    /\ \E t \in OpenSockets, p \in HostilePackets :
          /\ net' = net \cup {Datagram(t[1], t[2], p)}
          /\ ghost' = [ghost EXCEPT !.forged = @ + 1]
    /\ UNCHANGED <<codec, env, waits, st, call, lst>>

\* Drop for UdpxStream (transport.rs 297-301): the call of shutdown in its
\* body is a comment, so that the stream and its socket go and nothing is
\* sent.  The history records whether the stream was still open: shutdown
\* had not been called on it and it could still read.
Drop(s) ==
    /\ CanCall(s)
    /\ st' = [st EXCEPT ![s].exists = FALSE]
    /\ ghost' = [ghost EXCEPT !.dropped[s] =
                    IF ghost.shut[s] = NoSeq /\ ~cannot_read_anymore(st[s])
                    THEN "open" ELSE "shut"]
    /\ UNCHANGED <<codec, env, net, waits, call, lst>>

\* The router at the proxy's address: a datagram it receives is forwarded to
\* the endpoint named in the packet's peer and port fields, which are
\* replaced by the address the datagram came from.
Route ==
    /\ \E d \in {x \in net : x.dst = ProxyAddr} :
          LET f == Datagram(ProxyAddr, d.pkt.peer, [d.pkt EXCEPT !.peer = d.src])
          IN  /\ f \notin net
              /\ net' = (IF env.channel = "lossy" THEN net ELSE net \ {d}) \cup {f}
    /\ UNCHANGED <<codec, env, waits, st, call, lst, ghost>>

----------------------------------------------------------------------------
(* Packet and PacketStream (packet.rs) on their own: codec says which is    *)
(* under test (kind), the value it started from, and what the calls made   *)
(* of it.                                                                  *)

NoCodec == [kind |-> "none"]

\* The packets under test: every type of packet.rs, sequence numbers,
\* addresses and ports with small and large bytes, payloads of at most
\* MaxData bytes.
SomePackets ==
    [ ptyp : PacketTypes \ {"Flush"},
      nseq : {0, 1, 256, 16909060, 2147483647},
      peer : {<<127, 0, 0, 1>>, <<192, 168, 2, 1>>, <<255, 255, 255, 255>>},
      port : {0, 8080, 65535},
      data : UNION {[1..k -> {0, 65, 255}] : k \in 0..MaxData} ]

\* p.raw()
Encode ==
    /\ codec.kind = "packet" /\ codec.pc = "new"
    /\ codec' = [codec EXCEPT !.pc = "raw", !.buf = raw(codec.p)]
    /\ UNCHANGED <<env, net, waits, st, call, lst, ghost>>

\* Packet::try_from(&buf)
Decode ==
    /\ codec.kind = "packet" /\ codec.pc = "raw"
    /\ codec' = [codec EXCEPT !.pc = "decoded", !.q = TryFromBytes(codec.buf)]
    /\ UNCHANGED <<env, net, waits, st, call, lst, ghost>>

\* Iterator::next for PacketStream without self.seq += 1.
IteratorNextSameSeq(ps) ==
    LET n == Min(Len(ps.reader), PayloadCap)
    IN  IF n = 0 THEN [ps |-> [ps EXCEPT !.active = TRUE], item |-> <<>>]
        ELSE [ps |-> [ps EXCEPT !.active = TRUE, !.reader = TruncateLeft(@, n)],
              item |-> <<[ptyp |-> ps.packet_type, nseq |-> ps.seq, peer |-> ps.peer,
                          port |-> ps.port, data |-> SubSeq(ps.reader, 1, n)]>>]

\* Iterator::next for PacketStream (packet.rs 191-216): item is <<>> for
\* None and <<p>> for Some(p).  The reader is a slice: read gives
\* PACKET_DATA_CAPACITY bytes, or what is left.
IteratorNext(ps) ==
    LET n == Min(Len(ps.reader), PayloadCap)
    IN  IF n = 0 THEN [ps |-> [ps EXCEPT !.active = TRUE], item |-> <<>>]
        ELSE [ps |-> [ps EXCEPT !.active = TRUE, !.reader = TruncateLeft(@, n),
                                !.seq = @ + 1],
              item |-> <<[ptyp |-> ps.packet_type, nseq |-> ps.seq, peer |-> ps.peer,
                          port |-> ps.port, data |-> SubSeq(ps.reader, 1, n)]>>]

\* packet_stream_setter! (packet.rs 218-233) and impl PacketStream
\* (235-250): seq is generated by the first arm of the macro, port, peer and
\* packet_type by the second; remote calls peer and port.
packet_stream_setter(ps, name, v) ==
    CASE name = "seq" -> IF ps.active THEN ps ELSE [ps EXCEPT !.seq = v.seq]
      [] name = "port" -> [ps EXCEPT !.port = v.port]
      [] name = "peer" -> [ps EXCEPT !.peer = v.peer]
      [] name = "packet_type" -> [ps EXCEPT !.packet_type = v.packet_type]
      [] name = "remote" -> [ps EXCEPT !.peer = v.peer, !.port = v.port]

\* A setter is called on the PacketStream.  codec.cfg is what was set
\* before the first call of next, codec.late counts the calls made after.
StreamSet ==
    /\ codec.kind = "stream" /\ codec.sets < MaxSets
    /\ \E name \in {"seq", "port", "peer", "packet_type", "remote"},
          v \in [ seq : {7}, port : {8080}, peer : {<<192, 168, 2, 1>>},
                  packet_type : {"Fin"} ] :
          codec' = [codec EXCEPT
                      !.ps = packet_stream_setter(@, name, v),
                      !.sets = @ + 1,
                      !.late = IF codec.ps.active THEN @ + 1 ELSE @,
                      !.cfg = IF codec.ps.active THEN @
                              ELSE [f \in DOMAIN @ |->
                                      IF f = name \/ (name = "remote" /\ f \in {"peer", "port"})
                                      THEN v[f] ELSE @[f]]]
    /\ UNCHANGED <<env, net, waits, st, call, lst, ghost>>

\* next is called on the PacketStream, until it has returned None.
StreamNext ==
    /\ codec.kind = "stream" /\ codec.pc = "new"
    /\ \E r \in {IteratorNext(codec.ps)} :
          codec' = [codec EXCEPT !.ps = r.ps, !.out = @ \o r.item,
                                 !.pc = IF r.item = <<>> THEN "done" ELSE @]
    /\ UNCHANGED <<env, net, waits, st, call, lst, ghost>>

----------------------------------------------------------------------------
(* Specifications.                                                         *)

InitWith(envs) ==
    /\ env \in envs
    /\ net = {}
    /\ waits = <<>>
    /\ st = [s \in StreamAddrs |-> NoStream]
    /\ call = [s \in StreamAddrs |-> Idle]
    /\ lst = ListenerInit
    /\ ghost = GhostInit
    /\ codec = NoCodec

\* Spec: one client and one listener whose thread calls accept once; data
\* flows one way, from the writer (either side) to the reader.  The channel
\* loses, duplicates and reorders, a receive may time out at any time or
\* fail with a socket error.
Init ==
    InitWith([ platform : {"unix", "windows"}, channel : {"lossy"}, timers : {"any"},
               app : {"any"}, errors : {TRUE}, writer : {"client", "server"},
               listen : {"once"}, clients : {{101}},
               cap : {MaxBytes}, proxy : {"none"}, sends : {"ok"} ])

Next ==
    \/ \E c \in ClientAddrs : Connect(c)
    \/ \E c \in ClientAddrs : ConnectStep(c)
    \/ Accept
    \/ AcceptStep
    \/ \E s \in StreamAddrs : Read(s)
    \/ \E s \in StreamAddrs : ReadStep(s)
    \/ \E s \in StreamAddrs : Write(s)
    \/ \E s \in StreamAddrs : WriteStep(s)
    \/ \E s \in StreamAddrs : Shutdown(s)
    \/ \E s \in StreamAddrs : ShutdownStep(s)

Spec == Init /\ [][Next]_vars

\* SpecConc: two clients connect concurrently to a listener run by the loop
\* of ServerRunner::serve.  No datagram is lost or duplicated by the channel;
\* any thread may be slow, so that a receive may time out at any time.
InitConc ==
    InitWith([ platform : {"unix", "windows"}, channel : {"reliable"}, timers : {"any"},
               app : {"any"}, errors : {FALSE}, writer : {"client"}, listen : {"serve"},
               clients : {{101, 102}},
               cap : {MaxBytes}, proxy : {"none"}, sends : {"ok"} ])

NextConc ==
    \/ \E c \in ClientAddrs : Connect(c)
    \/ \E c \in ClientAddrs : ConnectStep(c)
    \/ Accept
    \/ AcceptStep
    \/ Age

SpecConc == InitConc /\ [][NextConc]_vars

\* LiveSpec: a client that connects, writes and shuts down; a server that
\* accepts once and reads its stream.  The channel reorders, drops at most
\* MaxLoss datagrams and delivers at most MaxDup twice; threads and datagrams
\* are faster than the timeouts; a thread that can take a step is not kept
\* from it forever.
LiveClients == {101}

InitLive ==
    InitWith([ platform : {"unix", "windows"}, channel : {"fair"}, timers : {"idle"},
               app : {"script"}, errors : {FALSE}, writer : {"client"}, listen : {"once"},
               clients : {LiveClients},
               cap : {MaxBytes}, proxy : {"none"}, sends : {"ok"} ])

ClientThread(c) ==
    \/ Connect(c)
    \/ ConnectStep(c)
    \/ Write(c)
    \/ WriteStep(c)
    \/ Shutdown(c)
    \/ ShutdownStep(c)

ServerThread(s) ==
    \/ Read(s)
    \/ ReadStep(s)

ListenerLoop ==
    \/ Accept
    \/ AcceptStep

NextLive ==
    \/ \E c \in ClientAddrs : Connect(c)
    \/ \E c \in ClientAddrs : ConnectStep(c)
    \/ \E c \in ClientAddrs : Write(c)
    \/ \E c \in ClientAddrs : WriteStep(c)
    \/ \E c \in ClientAddrs : Shutdown(c)
    \/ \E c \in ClientAddrs : ShutdownStep(c)
    \/ \E s \in DispatchedAddrs : Read(s)
    \/ \E s \in DispatchedAddrs : ReadStep(s)
    \/ Accept
    \/ AcceptStep
    \/ Lose

\* A step of some thread.
Progress ==
    \/ \E c \in LiveClients : ClientThread(c)
    \/ \E s \in DispatchedAddrs : ServerThread(s)
    \/ ListenerLoop

LiveSpec ==
    /\ InitLive
    /\ [][NextLive]_vars
    /\ WF_vars(Progress)

\* ShakeSpec: the handshakes of two clients alone, under the channel and the
\* timers of LiveSpec, with the listener run by the loop of
\* ServerRunner::serve.  The handshakes end within two seconds of the first
\* SYN.
ShakeClients == {101, 102}

InitShake ==
    InitWith([ platform : {"unix", "windows"}, channel : {"fair"}, timers : {"idle"},
               app : {"none"}, errors : {FALSE}, writer : {"client"}, listen : {"serve"},
               clients : {ShakeClients},
               cap : {MaxBytes}, proxy : {"none"}, sends : {"ok"} ])

NextShake ==
    \/ \E c \in ClientAddrs : Connect(c)
    \/ \E c \in ClientAddrs : ConnectStep(c)
    \/ Accept
    \/ AcceptStep
    \/ Lose

Handshaking ==
    \/ \E c \in ShakeClients : Connect(c) \/ ConnectStep(c)
    \/ ListenerLoop

ShakeSpec ==
    /\ InitShake
    /\ [][NextShake]_vars
    /\ WF_vars(Handshaking)

\* SpecPeer: one client that writes and one listener as in Spec, with an
\* application that makes every call on a closed stream and drops a stream
\* at some time, and a peer that sends, at most MaxForge times, a datagram of
\* HostilePackets.
InitPeer ==
    InitWith([ platform : {"unix", "windows"}, channel : {"lossy"}, timers : {"any"},
               app : {"probe"}, errors : {FALSE}, writer : {"client"},
               listen : {"once"}, clients : {{101}},
               cap : {1}, proxy : {"none"}, sends : {"ok"} ])

NextPeer ==
    \/ \E c \in ClientAddrs : Connect(c)
    \/ \E c \in ClientAddrs : ConnectStep(c)
    \/ Accept
    \/ AcceptStep
    \/ \E s \in StreamAddrs : Read(s)
    \/ \E s \in StreamAddrs : ReadStep(s)
    \/ \E s \in StreamAddrs : Write(s)
    \/ \E s \in StreamAddrs : WriteStep(s)
    \/ \E s \in StreamAddrs : Shutdown(s)
    \/ \E s \in StreamAddrs : ShutdownStep(s)
    \/ \E s \in StreamAddrs : Drop(s)
    \/ Forge

SpecPeer == InitPeer /\ [][NextPeer]_vars

----------------------------------------------------------------------------
(* ServerRunner::serve and Handle::shutdown (server.rs 131-134, 256-317).  *)
(* The listener is non-blocking: accept returns would-block when no        *)
(* datagram has arrived, and that arm of the loop is where the exit flag   *)
(* is polled.  handle_connection is a task that ends.                      *)

\* Handle::shutdown: exit.store(true), then done.wait().
HandleShutdown ==
    /\ env.listen = "serve" /\ lst.handle = "idle"
    /\ lst' = [lst EXCEPT !.exit = TRUE, !.handle = "waiting"]
    /\ UNCHANGED <<codec, env, net, waits, st, call, ghost>>

\* Lines 279-286: accept would block and the exit flag is set: break.  (With
\* the flag not set the thread sleeps and calls accept again.)
ExitPoll ==
    /\ env.listen = "serve" /\ lst.pc = "idle" /\ lst.exit
    /\ lst' = [lst EXCEPT !.pc = "stopped"]
    /\ UNCHANGED <<codec, env, net, waits, st, call, ghost>>

\* Lines 300-309: the task of the stream on socket s ends; its stream goes
\* out of scope.
WorkerDone(s) ==
    /\ s \in lst.workers /\ CanCall(s)
    /\ lst' = [lst EXCEPT !.workers = @ \ {s}]
    /\ st' = [st EXCEPT ![s].exists = FALSE]
    /\ ghost' = [ghost EXCEPT !.dropped[s] =
                    IF ghost.shut[s] = NoSeq /\ ~cannot_read_anymore(st[s])
                    THEN "open" ELSE "shut"]
    /\ UNCHANGED <<codec, env, net, waits, call>>

\* Line 313: after the loop, ThreadPool::join returns when no task is left.
JoinWorkers ==
    /\ env.listen = "serve" /\ lst.pc = "stopped" /\ lst.workers = {}
    /\ lst' = [lst EXCEPT !.pc = "barrier"]
    /\ UNCHANGED <<codec, env, net, waits, st, call, ghost>>

\* Lines 134 and 314: done is a Barrier of 2; both threads are in done.wait()
\* and both return.
DoneWait ==
    /\ lst.pc = "barrier" /\ lst.handle = "waiting"
    /\ lst' = [lst EXCEPT !.pc = "done", !.handle = "returned"]
    /\ UNCHANGED <<codec, env, net, waits, st, call, ghost>>

\* ServeSpec: the server of ServerRunner::serve with two clients that
\* connect, and a thread that calls Handle::shutdown at any time.  No
\* datagram is lost; a receive may time out at any time.  The listener's
\* thread and the tasks of the pool are not kept from a step forever.
InitServe ==
    InitWith([ platform : {"unix", "windows"}, channel : {"reliable"}, timers : {"any"},
               app : {"none"}, errors : {FALSE}, writer : {"client"}, listen : {"serve"},
               clients : {{101, 102}},
               cap : {MaxBytes}, proxy : {"none"}, sends : {"ok"} ])

NextServe ==
    \/ \E c \in ClientAddrs : Connect(c)
    \/ \E c \in ClientAddrs : ConnectStep(c)
    \/ Accept
    \/ AcceptStep
    \/ HandleShutdown
    \/ ExitPoll
    \/ \E s \in DispatchedAddrs : WorkerDone(s)
    \/ JoinWorkers
    \/ DoneWait

ListenerThreadStep ==
    \/ Accept
    \/ AcceptStep
    \/ ExitPoll
    \/ JoinWorkers
    \/ DoneWait

ServeSpec ==
    /\ InitServe
    /\ [][NextServe]_vars
    /\ WF_vars(ListenerThreadStep)
    /\ WF_vars(\E s \in DispatchedAddrs : WorkerDone(s))

\* SpecProxy: one client and one listener as in Spec, where the client, the
\* listener or both have a proxy configured, and the router that forwards
\* the datagrams sent to it.  The channel loses, duplicates and reorders; a
\* receive may time out at any time.
InitProxy ==
    InitWith([ platform : {"unix", "windows"}, channel : {"lossy"}, timers : {"any"},
               app : {"any"}, errors : {FALSE}, writer : {"client"}, listen : {"once"},
               clients : {{101}},
               cap : {1}, proxy : {"client", "listener", "both"},
               sends : {"ok"} ])

NextProxy ==
    \/ \E c \in ClientAddrs : Connect(c)
    \/ \E c \in ClientAddrs : ConnectStep(c)
    \/ Accept
    \/ AcceptStep
    \/ \E s \in StreamAddrs : Read(s)
    \/ \E s \in StreamAddrs : ReadStep(s)
    \/ \E s \in StreamAddrs : Write(s)
    \/ \E s \in StreamAddrs : WriteStep(s)
    \/ \E s \in StreamAddrs : Shutdown(s)
    \/ \E s \in StreamAddrs : ShutdownStep(s)
    \/ Route

SpecProxy == InitProxy /\ [][NextProxy]_vars

\* SpecDuplex: one client and one listener whose thread calls accept once;
\* both ends of the connection write and read, in any order, and neither
\* shuts down.  Each end passes its bytes to write in one call.  The channel
\* loses, duplicates and reorders, a receive may time out at any time, and a
\* send of write may find the send buffer of the socket full.
InitDuplex ==
    InitWith([ platform : {"unix"}, channel : {"lossy"}, timers : {"any"},
               app : {"bulk"}, errors : {FALSE}, writer : {"both"},
               listen : {"once"}, clients : {{101}},
               cap : {MaxDuplex}, proxy : {"none"}, sends : {"full"} ])

NextDuplex ==
    \/ \E c \in ClientAddrs : Connect(c)
    \/ \E c \in ClientAddrs : ConnectStep(c)
    \/ Accept
    \/ AcceptStep
    \/ \E s \in StreamAddrs : Read(s)
    \/ \E s \in StreamAddrs : ReadStep(s)
    \/ \E s \in StreamAddrs : Write(s)
    \/ \E s \in StreamAddrs : WriteStep(s)

SpecDuplex == InitDuplex /\ [][NextDuplex]_vars

\* SpecClose: as SpecDuplex, with shutdown: both ends of the connection
\* write, read and shut down, in any order; each end writes one byte and
\* every send succeeds.
InitClose ==
    InitWith([ platform : {"unix"}, channel : {"lossy"}, timers : {"any"},
               app : {"any"}, errors : {FALSE}, writer : {"both"},
               listen : {"once"}, clients : {{101}},
               cap : {1}, proxy : {"none"}, sends : {"ok"} ])

SpecClose == InitClose /\ [][Next]_vars

\* The application calls do_flush on the stream it writes to.
Flush(s) ==
    /\ CanSend(s)
    /\ \E m \in {do_flush(Machine(s, st[s], Idle))} :
          /\ net' = NetAfter(NoOutcome, m.out)
          /\ net' # net
    /\ UNCHANGED <<codec, env, waits, st, call, lst, ghost>>

\* SpecFlush: as Spec, with a writer that also calls do_flush.
NextFlush ==
    \/ \E c \in ClientAddrs : Connect(c)
    \/ \E c \in ClientAddrs : ConnectStep(c)
    \/ Accept
    \/ AcceptStep
    \/ \E s \in StreamAddrs : Read(s)
    \/ \E s \in StreamAddrs : ReadStep(s)
    \/ \E s \in StreamAddrs : Write(s)
    \/ \E s \in StreamAddrs : WriteStep(s)
    \/ \E s \in StreamAddrs : Shutdown(s)
    \/ \E s \in StreamAddrs : ShutdownStep(s)
    \/ \E s \in StreamAddrs : Flush(s)

SpecFlush == InitPeer /\ [][NextFlush]_vars

\* SpecPacket: a Packet is encoded and the bytes are decoded; or the
\* packets of Packet::stream over a byte source are taken with next, with
\* calls of the setters before and between.
InitPacket ==
    /\ env = [ platform |-> "unix", channel |-> "reliable", timers |-> "any",
               app |-> "none", errors |-> FALSE, writer |-> "client",
               listen |-> "once", clients |-> {}, cap |-> MaxBytes,
               proxy |-> "none", sends |-> "ok" ]
    /\ net = {}
    /\ waits = <<>>
    /\ st = [s \in StreamAddrs |-> NoStream]
    /\ call = [s \in StreamAddrs |-> Idle]
    /\ lst = ListenerInit
    /\ ghost = GhostInit
    /\ codec \in [ kind : {"packet"}, pc : {"new"}, p : SomePackets,
                    buf : {<<>>}, q : {Ok(0)} ]
                 \cup
                 { [ kind |-> "stream", pc |-> "new", src |-> [k \in 1..len |-> k],
                     ps |-> [ reader |-> [k \in 1..len |-> k], packet_type |-> "Data",
                              seq |-> 1, port |-> 0, peer |-> <<127, 0, 0, 1>>,
                              active |-> FALSE ],
                     cfg |-> [ seq |-> 1, port |-> 0, peer |-> <<127, 0, 0, 1>>,
                               packet_type |-> "Data" ],
                     out |-> <<>>, sets |-> 0, late |-> 0 ] : len \in 0..MaxSource }

NextPacket ==
    \/ Encode
    \/ Decode
    \/ StreamSet
    \/ StreamNext

SpecPacket == InitPacket /\ [][NextPacket]_vars

----------------------------------------------------------------------------
(* Claims checked under Spec, where the network holds every datagram sent. *)

\* The stream at the other end of stream s.
PeerOf(s) == IF s \in ClientAddrs THEN st[s].conn ELSE st[s].remote

IsPrefixOfWritten(d, w) ==
    /\ Len(d) <= ghost.written[w]
    /\ \A k \in 1..Len(d) : d[k] = ByteOf(w, k)

\* C1: in one direction of a connection, whatever the channel loses,
\* duplicates or reorders, the bytes the reader's reads have returned so far
\* are a prefix of the bytes passed so far to the writer's writes.
C1_DeliveredIsPrefix ==
    \A s \in StreamAddrs :
        st[s].exists /\ ~IsWriter(s) =>
            IsPrefixOfWritten(ghost.delivered[s], PeerOf(s))

\* Every byte written was read and acknowledged.
C1_Witness ==
    \E s \in StreamAddrs :
        /\ st[s].exists /\ ~IsWriter(s)
        /\ Len(ghost.delivered[s]) = MaxBytes
        /\ ghost.written[PeerOf(s)] = MaxBytes
        /\ \E d \in net :
              d.src = s /\ d.pkt.ptyp = "Ack" /\ d.pkt.nseq >= FIRST_NSEQ

\* C5: the server's accept never fails because of what the client replied
\* to a SYN-ACK: on the data path too (read or write) the client answers a
\* retransmitted SYN-ACK with the stored ACK, seq = SYN-ACK.seq + 1.
C5_SynAckAnsweredWithHandshakeAck ==
    /\ \A k \in 1..Len(ghost.accepts) : ghost.accepts[k].res # "bad ACK seq"
    /\ \A d \in net :
          d.src \in ClientAddrs /\ d.pkt.ptyp = "Ack" /\ d.pkt.nseq < FIRST_NSEQ
             => d.pkt.nseq = SynOf(d.src).nseq + 2

\* The DATA packets socket a has sent.
DataSeqs(a) == {d.pkt.nseq : d \in {x \in net : x.src = a /\ x.pkt.ptyp = "Data"}}

\* C8: after a handshake whose SYN carried seq S, the first DATA packet of
\* the client has seq S + 3 and the first DATA packet of the server S + 4.
C8_FirstDataSeq ==
    \A s \in StreamAddrs :
        DataSeqs(s) # {} =>
            LET first == CHOOSE x \in DataSeqs(s) : \A y \in DataSeqs(s) : x <= y
                S == IF s \in ClientAddrs THEN SynOf(s).nseq ELSE SynOf(st[s].remote).nseq
            IN  first = IF s \in ClientAddrs THEN S + 3 ELSE S + 4

C10_ZeroOnlyAtEof ==
    \A s \in StreamAddrs :
        ghost.last[s].op = "read" /\ ghost.last[s].ret = Ok(0) /\ ~st[s].err
            => is_closed(st[s])

----------------------------------------------------------------------------
(* Claims checked under LiveSpec, where the network holds the datagrams in  *)
(* flight.                                                                 *)

\* The server's stream for client c has been read to its end: the reads
\* returned exactly the bytes c wrote before its shutdown, and then 0.
ReadToEnd(c, s) ==
    /\ st[s].exists /\ st[s].remote = c
    /\ ghost.delivered[s] = Bytes(c, 1, ghost.shut[c])
    /\ ghost.last[s] = [op |-> "read", ret |-> Ok(0), eof |-> TRUE]

\* C2: over a channel that delivers what is retransmitted often enough,
\* after the client has written its bytes and called shutdown the server's
\* repeated reads eventually have returned exactly those bytes and then 0.
C2_EventuallyReadToEnd ==
    \A c \in LiveClients :
        [](ghost.shut[c] > 0 => <>(\E s \in DispatchedAddrs : ReadToEnd(c, s)))

\* All the bytes were written, a datagram was dropped, and the server has
\* read them all and then 0.
C2_Witness ==
    \E c \in LiveClients, s \in DispatchedAddrs :
        /\ ghost.shut[c] = MaxBytes
        /\ ghost.lost > 0
        /\ ReadToEnd(c, s)

\* The handshake of client c has succeeded at both ends.
Established(c) ==
    /\ ghost.connect[c] = "ok"
    /\ \E k \in 1..Len(ghost.accepts) :
          ghost.accepts[k].res = "ok" /\ ghost.accepts[k].syn = SynOf(c)

\* The datagrams of the handshake in flight have the shape and the order of
\* the three steps: a SYN with seq 0 from the client to the listener; a
\* SYN-ACK with seq 1 from a dispatched socket, which it names, sent once
\* the SYN is received; an ACK with seq 2 from the client to that socket,
\* sent once the SYN-ACK is received.
HandshakeShape ==
    \A d \in net :
        /\ d.pkt.ptyp = "Syn" =>
              d.src \in ClientAddrs /\ d.dst = ListenerAddr /\ d.pkt.nseq = 0
        /\ d.pkt.ptyp = "SynAck" =>
              /\ d.src \in DispatchedAddrs /\ d.dst \in ClientAddrs
              /\ deserialize_addr(d.pkt.data) = d.src
              /\ d.pkt.nseq = 1
              /\ SynOf(d.dst) \in ghost.seen
        /\ d.pkt.ptyp = "Ack" /\ d.src \in ClientAddrs =>
              /\ d.dst \in DispatchedAddrs /\ d.pkt.nseq = 2
              /\ st[d.src].exists /\ st[d.src].conn = d.dst

\* C3: the handshake is SYN (seq 0) to the listener, SYN-ACK (seq 1) from a
\* freshly bound socket, ACK (seq 2) to that socket, in that order; and when
\* no datagram is lost, connect and accept both succeed.
C3_HandshakeSucceeds ==
    /\ []HandshakeShape
    /\ \A c \in LiveClients : <>(ghost.lost > 0 \/ Established(c))

\* The handshake has succeeded at both ends, no datagram was dropped, and
\* the three datagrams were sent: the third is in flight.
C3_Witness ==
    \E c \in LiveClients :
        /\ Established(c) /\ ghost.lost = 0
        /\ \E d \in net : d.src = c /\ d.pkt.ptyp = "Ack" /\ d.pkt.nseq = 2

----------------------------------------------------------------------------
(* Claims checked under ShakeSpec.                                         *)

\* The streams accepted for client c, and the sockets bound for it.
AcceptedFor(c) ==
    {k \in 1..Len(ghost.accepts) :
        ghost.accepts[k].res = "ok" /\ ghost.accepts[k].syn = SynOf(c)}

BoundFor(c) ==
    {ghost.accepts[k].sock : k \in {j \in 1..Len(ghost.accepts) :
        ghost.accepts[j].sock # NoAddr /\ ghost.accepts[j].syn = SynOf(c)}}

----------
(* Claims checked under SpecConc.                                          *)

\* C6: of two equal SYN datagrams the listener receives within two seconds,
\* the second makes accept return an error without binding a socket, so that
\* the two produce no more than the one stream of the first.
C6_DuplicateSynRejected ==
    /\ \A k \in 1..Len(ghost.accepts) :
          ghost.accepts[k].dup =>
              ghost.accepts[k].res = "duplicate" /\ ghost.accepts[k].sock = NoAddr
    /\ lst.binds = Cardinality({k \in 1..Len(ghost.accepts) :
                                    ghost.accepts[k].sock # NoAddr})

\* accept returned a stream for a SYN, then an error for an equal SYN
\* received less than two seconds after the first.
C6_Witness ==
    \E j, k \in 1..Len(ghost.accepts) :
        /\ j < k
        /\ ghost.accepts[j].syn = ghost.accepts[k].syn
        /\ ghost.accepts[j].res = "ok" /\ ghost.accepts[j].sock # NoAddr
        /\ ghost.accepts[k].dup /\ ghost.accepts[k].res = "duplicate"

\* A handshake ran out of attempts at one end.
OutOfAttempts ==
    LET errs == {"TimedOut", "WouldBlock", "InvalidResponses"}
    IN  \/ \E c \in ClientAddrs : ghost.connect[c] \in errs
        \/ \E k \in 1..Len(ghost.accepts) : ghost.accepts[k].res \in errs

\* C7: clients that call connect concurrently are all served, whatever the
\* interleaving: unless a handshake ran out of attempts, the accept loop does
\* not end with a client that called connect left without a stream; the
\* streams accepted are on pairwise distinct dispatched sockets, and a
\* client's stream is connected to the socket dispatched for that client.
C7_ConcurrentConnectsServed ==
    /\ lst.pc = "stopped" /\ ~OutOfAttempts =>
          \A c \in env.clients :
              call[c].op = "connect" \/ ghost.connect[c] # "none"
                  => AcceptedFor(c) # {}
    /\ \A j, k \in 1..Len(ghost.accepts) :
          j # k /\ ghost.accepts[j].sock # NoAddr
              => ghost.accepts[j].sock # ghost.accepts[k].sock
    /\ \A c \in env.clients :
          st[c].exists =>
              \E k \in 1..Len(ghost.accepts) :
                  ghost.accepts[k].sock = st[c].conn /\ ghost.accepts[k].syn = SynOf(c)

----------------------------------------------------------------------------
(* Claims checked under SpecPeer.                                          *)

\* C11: a call of shutdown that follows a call of shutdown on the same
\* stream sends no FIN, does not wait for a FIN-ACK, changes nothing in the
\* stream and returns Ok.
C11_ShutdownIdempotent ==
    [][\A s \in StreamAddrs :
          ghost.last[s].op = "shutdown" /\ call[s].op = "none" =>
              /\ call'[s].op # "shutdown"
              /\ \A d \in net' \ net : ~(d.src = s /\ d.pkt.ptyp = "Fin")
              /\ ghost'.last[s] # ghost.last[s] /\ ghost'.last[s].op = "shutdown"
                    => ghost'.last[s].ret = Ok(0) /\ st'[s] = st[s]]_vars

\* C12: when a stream that was still open is dropped, shutdown runs and a
\* FIN of the stream is sent; when a stream that was shut down is dropped,
\* nothing is sent.
C12_DropSendsFin ==
    /\ [](\A s \in StreamAddrs :
             ghost.dropped[s] = "open" =>
                 \E d \in net : d.src = s /\ d.pkt.ptyp = "Fin")
    /\ [][\A s \in StreamAddrs :
             st[s].exists /\ ~st'[s].exists /\ ghost'.dropped[s] = "shut"
                 => net' = net]_vars

\* C13: shutdown sends its FIN a bounded number of times, and when it has
\* returned on a stream without a latched error the stream is marked closed,
\* whatever was received while it waited for the FIN-ACK.
C13_ShutdownCloses ==
    \A s \in StreamAddrs :
        /\ call[s].op = "shutdown" => call[s].i <= FinTries
        /\ ghost.last[s].op = "shutdown" /\ ~st[s].err => st[s].closed

C16_UndecodableDropped ==
    /\ \A s \in StreamAddrs : ghost.last[s].ret # Err("malformed")
    /\ \A c \in ClientAddrs : ghost.connect[c] # "malformed"
    /\ \A k \in 1..Len(ghost.accepts) : ghost.accepts[k].res # "malformed"

\* C17: whatever datagram a peer sends, no thread of the transport panics:
\* accept and connect return a value or an error.
C17_NoPanic ==
    /\ lst.pc # "panicked"
    /\ \A c \in ClientAddrs : ghost.connect[c] # "panic"
    /\ \A k \in 1..Len(ghost.accepts) : ghost.accepts[k].res # "panic"


(* Claims about errors, checked under Spec.                               *)

\* The progress of the call in flight on a stream: the bytes a read has
\* copied to the buffer, the bytes of a write that were acknowledged.
PartialProgress(c) == IF c.op = "read" THEN Len(c.red) ELSE c.n

\* C15: when a socket error that is not would-block, timed-out or interrupted
\* happens during read or write, the error is latched on the stream and the
\* call returns its partial progress if it has any; a latched error is never
\* cleared; every read or write that returns afterwards returns the error.
C15_FatalErrorLatched ==
    [][\A s \in StreamAddrs :
          /\ ~st[s].err /\ st'[s].err /\ PartialProgress(call[s]) > 0
                => ghost'.last[s].ret = Ok(PartialProgress(call[s]))
          /\ st[s].err => st'[s].err
          /\ st[s].err /\ ghost'.last[s] # ghost.last[s]
                       /\ ghost'.last[s].op \in {"read", "write"}
                => ghost'.last[s].ret = Err("io")]_vars


\* C18: reliable_send returns the first response whose type is one of the
\* accepted types; when its attempts are used up without one, it fails with
\* InvalidResponses if a response of another type was decoded and with
\* TimedOut if no response was decoded.  (The other failures are an error
\* of the socket and a datagram that cannot be decoded.)
C18_ReliableSendResult ==
    \A x \in ghost.sends :
        /\ x.res = "ok" => x.typ \in x.accepted
        /\ x.res \notin {"ok", "io", "malformed", "panic"}
              => x.res = IF x.invalid THEN "InvalidResponses" ELSE "TimedOut"


\* The results of accept after a handshake that failed: the first packet
\* was not a SYN, the ACK of the final leg had a wrong sequence number, the
\* handshake timed out (TimedOut, or WouldBlock on Unix).
HandshakeFailures == {"not a SYN", "bad ACK seq", "TimedOut", "WouldBlock"}

\* C19: when accept fails because the first packet is not a SYN, the ACK of
\* the final leg has a wrong sequence number or the handshake times out, it
\* hands out no stream and leaves the listener as it was before the packet
\* arrived: the packet is not among the recent SYNs and no dispatched socket
\* is kept, so that the same SYN can be sent again at once.
C19_FailedAcceptLeavesNoState ==
    [][LET k == Len(ghost'.accepts)
       IN  /\ k >= 1
           /\ k > Len(ghost.accepts) \/ ghost.accepts[k].res = "pending"
           /\ ghost'.accepts[k].res \in HandshakeFailures
           => /\ st' = st
              /\ lst'.sock = NoAddr
              /\ ~\E e \in lst'.duplicate_syns :
                     e.pkt = ghost'.accepts[k].syn /\ ~e.stale]_vars


(* Claims checked under ServeSpec.                                         *)

\* C20: once Handle::shutdown has set the exit flag, the listener's thread
\* observes the flag at its next accept iteration and leaves the loop, that
\* is, from the head of its loop it starts no handshake; Handle::shutdown
\* never returns while a dispatched task has not finished; and it
\* eventually returns.
C20_HandleShutdown ==
    /\ [][lst.exit /\ lst.pc = "idle" => lst'.pc \in {"idle", "stopped"}]_vars
    /\ [](lst.handle = "returned" => lst.workers = {})
    /\ (lst.exit ~> lst.handle = "returned")



(* Claims checked under SpecProxy.                                         *)

\* C21: every datagram transmitted by an endpoint that has a proxy
\* configured (the stream of a client, the socket the listener dispatches
\* and the stream on it) is addressed to the proxy and carries the address
\* of the true peer in its header: the listener's in a SYN, the dispatched
\* socket's in the client's other packets, the client's in the server's.
C21_ProxyAddressing ==
    \A d \in net :
        d.src \in StreamAddrs /\ ProxyOf(d.src) # NoAddr
        => /\ d.dst = ProxyAddr
           /\ IF d.src \in DispatchedAddrs THEN d.pkt.peer \in ClientAddrs
              ELSE IF d.pkt.ptyp = "Syn" THEN d.pkt.peer = ListenerAddr
              ELSE d.pkt.peer \in DispatchedAddrs


(* Claims checked under SpecPacket.                                        *)

\* C22: decoding the encoding of a packet yields the packet, whatever its
\* type (INVALID too), sequence number, peer, port and payload.
C22_CodecRoundTrip ==
    codec.kind = "packet" /\ codec.pc = "decoded" => codec.q = Ok(codec.p)

\* An INVALID packet with the largest fields and a payload was encoded to 11
\* bytes and the payload, and decoded.
C22_Witness ==
    /\ codec.kind = "packet" /\ codec.pc = "decoded"
    /\ codec.p.ptyp = "Invalid" /\ codec.p.nseq = 2147483647
    /\ codec.p.port = 65535 /\ Len(codec.p.data) = MaxData
    /\ Len(codec.buf) = 11 + MaxData /\ codec.buf[1] = 255


\* C23: Packet::stream over a source of L bytes, with the parameters set
\* before the first packet, yields ceil(L / capacity) packets (none for
\* L = 0); every payload has at most the capacity and every one but the last
\* exactly the capacity; the sequence numbers are consecutive from the
\* initial one (1 when not set); every packet has the configured type, peer
\* and port; the payloads in order make up the source.
C23_PacketStreamChunks ==
    codec.kind = "stream" /\ codec.pc = "done" /\ codec.late = 0 =>
        LET out == codec.out
            L == Len(codec.src)
            n == Len(out)
        IN  /\ n = (L + PayloadCap - 1) \div PayloadCap
            /\ \A i \in 1..n :
                  /\ Len(out[i].data) \in 1..PayloadCap
                  /\ i < n => Len(out[i].data) = PayloadCap
                  /\ out[i].nseq = codec.cfg.seq + i - 1
                  /\ out[i].ptyp = codec.cfg.packet_type
                  /\ out[i].peer = codec.cfg.peer
                  /\ out[i].port = codec.cfg.port
            /\ n > 0 => (n - 1) * PayloadCap + Len(out[n].data) = L
            /\ \A k \in 1..L :
                  out[((k - 1) \div PayloadCap) + 1].data[((k - 1) % PayloadCap) + 1]
                      = codec.src[k]

\* The longest source was cut in three packets, the last one short, after
\* the start seq and the remote were set.
C23_Witness ==
    /\ codec.kind = "stream" /\ codec.pc = "done" /\ codec.late = 0
    /\ Len(codec.src) = MaxSource /\ Len(codec.out) = 3
    /\ Len(codec.out[3].data) = 1
    /\ codec.cfg.seq = 7 /\ codec.cfg.port = 8080 /\ codec.out[3].nseq = 9

\* C24: a setter of the PacketStream (seq, peer, port, remote, packet_type)
\* called after next has been called leaves the seq, peer, port and type of
\* the packets still to come as they were.
C24_LateSetterIgnored ==
    [][codec.kind = "stream" /\ codec.ps.active /\ codec'.sets > codec.sets
          => codec'.ps = codec.ps]_vars


\* C25: a DATA packet whose seq is greater than the next expected seq is
\* acknowledged when it is received and is buffered: past the next expected
\* seq, the seqs the stream has acknowledged are the seqs it holds in its
\* receive buffer.  None of the bytes of such a packet has been returned by
\* read, and the bytes returned so far are in the order they were written.
C25_OutOfOrderBuffered ==
    \A s \in StreamAddrs :
        st[s].exists /\ ~IsWriter(s) =>
            LET acked == {d.pkt.nseq : d \in {x \in net : x.src = s /\ x.pkt.ptyp = "Ack"}}
                buffered == DOMAIN st[s].packets_received
                got == ghost.delivered[s]
            IN  /\ \A k \in acked \cup buffered :
                       k > st[s].next_nseq =>
                           /\ k \in acked /\ k \in buffered
                           /\ st[s].packets_received[k].ptyp = "Data"
                           /\ \A i \in 1..Len(st[s].packets_received[k].data) :
                                  \A j \in 1..Len(got) :
                                      got[j] # st[s].packets_received[k].data[i]
                /\ \A j \in 1..Len(got) : got[j] = ByteOf(PeerOf(s), j)

\* C26: a DATA packet received more than once is delivered once, and every
\* copy is acknowledged: no byte is returned twice by the reads of a stream,
\* and a step of a stream that puts a copy of a DATA packet in its receive
\* buffer (a first copy, or one that replaces what is left of a partially
\* consumed one) has sent an ACK with the seq of the packet.
C26_DuplicateDeliveredOnce ==
    /\ [](\A s \in StreamAddrs :
            \A i, j \in 1..Len(ghost.delivered[s]) :
                i # j => ghost.delivered[s][i] # ghost.delivered[s][j])
    /\ [][\A s \in StreamAddrs :
            st[s].exists =>
                \A N \in DOMAIN st'[s].packets_received :
                    (\/ N \notin DOMAIN st[s].packets_received
                     \/ Len(st'[s].packets_received[N].data)
                            > Len(st[s].packets_received[N].data))
                    => \E d \in net' : d.src = s /\ d.pkt.ptyp = "Ack" /\ d.pkt.nseq = N]_vars

\* C27: where both ends write and read, in whatever order, the bytes of each
\* end can still be delivered completely and in order to the other end: a
\* DATA packet held in the receive buffer of a stream is one that read will
\* still return (its seq is not below the next expected seq), the next
\* expected seq has not passed a DATA packet of the peer whose bytes read did
\* not return, and the bytes returned are in the order they were written.
C27_DuplexDelivery ==
    \A s \in StreamAddrs :
        st[s].exists =>
            LET got == IF call[s].op = "read" THEN ghost.delivered[s] \o call[s].red
                       ELSE ghost.delivered[s]
            IN  /\ \A k \in DOMAIN st[s].packets_received : k >= st[s].next_nseq
                /\ \A d \in net :
                       d.dst = s /\ d.pkt.ptyp = "Data" /\ d.pkt.nseq < st[s].next_nseq =>
                           \A i \in 1..Len(d.pkt.data) :
                               \E j \in 1..Len(got) : got[j] = d.pkt.data[i]
                /\ \A j \in 1..Len(got) : got[j] = ByteOf(PeerOf(s), j)

\* C28: a stream never acknowledges a DATA packet that it can no longer
\* deliver: every DATA packet of the peer for which the stream has sent an
\* ACK has been returned by read, or is in the hands of the read in
\* progress, or is held in the receive buffer under a seq not below the next
\* expected seq.
C28_AckedIsDeliverable ==
    \A s \in StreamAddrs :
        st[s].exists =>
            LET got == IF call[s].op = "read" THEN ghost.delivered[s] \o call[s].red
                       ELSE ghost.delivered[s]
            IN  \A d \in net :
                    /\ d.dst = s /\ d.pkt.ptyp = "Data"
                    /\ \E a \in net : a.src = s /\ a.pkt.ptyp = "Ack" /\ a.pkt.nseq = d.pkt.nseq
                    => \/ \A i \in 1..Len(d.pkt.data) :
                              \E j \in 1..Len(got) : got[j] = d.pkt.data[i]
                       \/ /\ d.pkt.nseq \in DOMAIN st[s].packets_received
                          /\ d.pkt.nseq >= st[s].next_nseq

\* C29: read ignores a received packet that is not a DATA, FIN or FLUSH
\* packet, whatever its seq: the receive buffer holds DATA packets only, and
\* a step of a stream that only reads moves the next expected seq past a seq
\* only when it had the DATA packet with that seq (in its receive buffer, or
\* among the datagrams sent to it).
C29_ReadIgnoresOtherTypes ==
    /\ [](\A s \in StreamAddrs :
            \A k \in DOMAIN st[s].packets_received :
                st[s].packets_received[k].ptyp = "Data")
    /\ [][\A s \in StreamAddrs :
            st[s].exists /\ st'[s].exists /\ ~IsWriter(s) =>
                \A k \in st[s].next_nseq..(st'[s].next_nseq - 1) :
                    \/ /\ k \in DOMAIN st[s].packets_received
                       /\ st[s].packets_received[k].ptyp = "Data"
                    \/ \E d \in net : d.dst = s /\ d.pkt.ptyp = "Data" /\ d.pkt.nseq = k]_vars

\* C30: a DATA packet of which read has returned a part (the caller's buffer
\* had no room for the rest) is kept in the receive buffer under its seq, and
\* what is kept is exactly the bytes not yet returned, also when a copy of
\* the packet is received between the read calls; the bytes returned so far
\* are the first bytes the peer wrote, in order, none lost or repeated.
C30_PartialConsumption ==
    \A s \in StreamAddrs :
        st[s].exists =>
            LET got == IF call[s].op = "read" THEN ghost.delivered[s] \o call[s].red
                       ELSE ghost.delivered[s]
                Returned(b) == \E j \in 1..Len(got) : got[j] = b
            IN  /\ \A j \in 1..Len(got) : got[j] = ByteOf(PeerOf(s), j)
                /\ \A d \in net :
                       /\ d.dst = s /\ d.pkt.ptyp = "Data"
                       /\ \E i \in 1..Len(d.pkt.data) : Returned(d.pkt.data[i])
                       /\ \E i \in 1..Len(d.pkt.data) : ~Returned(d.pkt.data[i])
                       => /\ d.pkt.nseq \in DOMAIN st[s].packets_received
                          /\ st[s].packets_received[d.pkt.nseq].data
                                = SelectSeq(d.pkt.data, LAMBDA b : ~Returned(b))

\* C31: when write returns with the send queue drained, the value returned
\* is the length of the buffer it was called with.
C31_WriteReturnsLen ==
    [][\A s \in StreamAddrs :
          /\ call[s].op = "write" /\ call'[s].op = "none" /\ st'[s].exists
          /\ ghost'.last[s].ret.kind = "Ok"
          /\ DOMAIN st'[s].packets_sent = {}
          => ghost'.last[s].ret.val = call[s].buflen]_vars

\* C32: whenever write returns Ok(n), n is at most the length of the buffer
\* it was called with and the packets acknowledged are the first ones chunked
\* from that buffer: no packet of the buffer is out of the send queue while
\* one with a smaller seq is still in it.
C32_WriteAcksPrefix ==
    [][\A s \in StreamAddrs :
          /\ call[s].op = "write" /\ call'[s].op = "none" /\ st'[s].exists
          /\ ghost'.last[s].ret.kind = "Ok"
          => LET n == ghost'.last[s].ret.val
                 chunks == (call[s].buflen + PayloadCap - 1) \div PayloadCap
                 mine == (st'[s].next_nseq - chunks)..(st'[s].next_nseq - 1)
             IN  /\ n <= call[s].buflen
                 /\ \A k \in mine \cap DOMAIN st'[s].packets_sent :
                        \A j \in mine : j > k => j \in DOMAIN st'[s].packets_sent]_vars

C34_AckCarriesSeq ==
    /\ [](\A d \in net :
            d.pkt.ptyp = "Ack" /\ d.src \in StreamAddrs =>
                \E e \in net :
                    /\ e.dst = d.src /\ e.src = d.dst
                    /\ e.pkt.ptyp \in {"Data", "SynAck"}
                    /\ e.pkt.nseq = d.pkt.nseq)
    /\ [][\A s \in StreamAddrs :
            st[s].exists /\ st'[s].exists =>
                \A k \in DOMAIN st[s].packets_sent \ DOMAIN st'[s].packets_sent :
                    \E a \in net : a.dst = s /\ a.pkt.ptyp = "Ack" /\ a.pkt.nseq = k]_vars

\* C35: a FIN that a stream receives in shutdown is treated as the end of the
\* peer's stream and answered.  A shutdown that stops waiting before its
\* tries are used up, although no FIN-ACK was ever sent to the stream, has
\* received the peer's FIN: the stream has then sent a FIN-ACK, is closed,
\* and its last seq is the seq of a FIN of the peer.
C35_FinAnswered ==
    [][\A s \in StreamAddrs :
          /\ call[s].op = "shutdown" /\ call[s].pc = "recv" /\ call'[s].op = "none"
          /\ st'[s].exists /\ call[s].i < FinTries
          /\ ghost'.last[s].ret.kind = "Ok"
          /\ ~\E a \in net : a.dst = s /\ a.pkt.ptyp = "FinAck"
          => /\ st'[s].closed
             /\ \E a \in net' : a.src = s /\ a.pkt.ptyp = "FinAck"
             /\ \E f \in net : f.dst = s /\ f.pkt.ptyp = "Fin"
                                 /\ st'[s].last_nseq = f.pkt.nseq]_vars

\* C36: a FLUSH packet is transmitted with the seq the sender would give its
\* next DATA packet; a FLUSH is never buffered, and never acknowledged: a
\* stream has sent no ACK with a seq under which only FLUSH packets were sent
\* to it.
C36_Flush ==
    /\ [][\A d \in net' \ net :
            d.pkt.ptyp = "Flush" /\ d.src \in StreamAddrs =>
                d.pkt.nseq = st'[d.src].next_nseq]_vars
    /\ [](\A s \in StreamAddrs :
            \A k \in DOMAIN st[s].packets_received :
                st[s].packets_received[k].ptyp # "Flush")
    /\ [](\A a \in net :
            /\ a.pkt.ptyp = "Ack" /\ a.src \in StreamAddrs
            /\ \E f \in net : f.dst = a.src /\ f.pkt.ptyp = "Flush" /\ f.pkt.nseq = a.pkt.nseq
            => \E e \in net : e.dst = a.src /\ e.pkt.ptyp # "Flush" /\ e.pkt.nseq = a.pkt.nseq)

\* C37: the reliable_send of the listener's handshake is called with
\* skip_would_block false: a receive of it that fails with WouldBlock ends
\* the call with that error, so the call never goes on to another receive
\* with less of its would-block allowance left.
C37_WouldBlockReturned ==
    [][lst.pc = "recv" /\ lst'.pc = "recv" => lst'.blk >= lst.blk]_vars

\* C38: every call of reliable_send ends after a bounded number of
\* transmissions.  Each pass of its loop sends the datagram once; the
\* passes made so far are the counted attempts i plus the would-blocks
\* used up (Attempts - blk).  While a call is waiting, i is between 1 and
\* Attempts and blk between 0 and Attempts, and every receive that does
\* not end the call (a timeout, a would-block, a datagram from another
\* address, a response of another type) adds exactly one pass, so a call
\* of connect or accept makes at most 2 * Attempts + 1 passes.
C38_BoundedTransmissions ==
    /\ [](/\ lst.pc = "recv"
             => lst.i \in 1..Attempts /\ lst.blk \in 0..Attempts
          /\ \A c \in ClientAddrs : call[c].op = "connect"
             => call[c].i \in 1..Attempts /\ call[c].blk \in 0..Attempts)
    /\ [][/\ lst.pc = "recv" /\ lst'.pc = "recv" /\ lst' # lst
             => lst'.i - lst'.blk = lst.i - lst.blk + 1
          /\ \A c \in ClientAddrs :
                call[c].op = "connect" /\ call'[c].op = "connect" /\ call'[c] # call[c]
                => call'[c].i - call'[c].blk = call[c].i - call[c].blk + 1]_vars

\* A connect that has made its last counted attempt after a would-block
\* and a response of the wrong type.
C38_Witness ==
    \E c \in ClientAddrs :
        /\ call[c].op = "connect" /\ call[c].i = Attempts
        /\ call[c].blk < Attempts /\ call[c].invalid

\* C39: the accept loop of the server ends only after the exit flag has
\* been set: whenever the listener's thread has left the loop, Handle::shutdown
\* has stored true in the flag.
C39_LoopEndsOnExit ==
    env.listen = "serve" /\ lst.pc \in {"stopped", "barrier", "done"} => lst.exit

\* C40: shutdown leaves the receive side of the stream unchanged: over
\* every step of a call of shutdown, from the call to its return, the next
\* expected sequence number, the receive buffer and the last sequence
\* number of the stream are what they were before the step.
C40_ShutdownKeepsReceiveSide ==
    [][\A s \in StreamAddrs :
          /\ call[s].op = "shutdown" \/ call'[s].op = "shutdown"
          /\ st[s].exists /\ st'[s].exists
          => /\ st'[s].next_nseq = st[s].next_nseq
             /\ st'[s].packets_received = st[s].packets_received
             /\ st'[s].last_nseq = st[s].last_nseq]_vars

====
